---- MODULE Spec2Model ----
(***************************************************************************)
(* Job Record Store of the job trend analyzer                              *)
(* (job_trend_analyzer/utils/db_manager.py) and the dashboard's start-up   *)
(* health check (job_trend_analyzer/app.py).                               *)
(*                                                                         *)
(* Text is a sequence of one-character strings, so that strip(), lower(),  *)
(* LIKE and the byte-wise comparison of SQLite are computed, not assumed.  *)
(* An optional value (Python None / pandas NaT / SQL NULL) is a sequence   *)
(* of length 0 or 1.                                                       *)
(***************************************************************************)
EXTENDS Integers, Sequences, FiniteSets, TLC

VARIABLES
    app,                      \* position of the dashboard script
    selftest_failed,          \* whether the start-up query failed underneath
    dbOpenable,               \* whether sqlite3.connect(DATABASE_NAME) succeeds
    init_last,                \* the last init_db call: its outcome, the rows it found
    tableExists,              \* whether the jobs table exists in the file
    jobs,                     \* committed rows of the jobs table, in rowid order
    now,                      \* CURRENT_TIMESTAMP of the engine
    lock,                     \* holder of the write lock of the database file
    pc,                       \* position of each process
    cur,                      \* the row of jobs_df handled last, and its fault
    txn,                      \* the table as the open transaction has it
    inserted_rows,
    skipped_due_to_duplicate,
    error_rows,
    seen_urls,                \* stripped urls of the rows handled in this call
    call_fault,               \* whether a storage fault hit this call
    jobs_before,              \* the table when the call began
    ret,                      \* what store_jobs returned
    fetched,                  \* what fetch_jobs returned
    today,                    \* datetime.now().date() of the process
    date_str,                 \* the argument of parse_relative_date
    parsed,                   \* how parse_relative_date ended, and on which day
    text_blob,                \* the argument of extract_skills_from_text
    skills,                   \* what extract_skills_from_text returned
    jobs_data,                \* the records of the last scrape, as scraped
    skills_series,            \* the argument of analyze_skills
    skill_counts              \* what analyze_skills returned

ingestVars == <<jobs_data, skills_series, skill_counts>>

parseVars == <<today, date_str, parsed, text_blob, skills, ingestVars>>

vars == <<app, selftest_failed, dbOpenable, init_last, tableExists, jobs, now,
          lock, pc, cur, txn, inserted_rows, skipped_due_to_duplicate,
          error_rows, seen_urls, call_fault, jobs_before, ret, fetched,
          parseVars>>

storeVars == <<cur, txn, inserted_rows, skipped_due_to_duplicate,
               error_rows, seen_urls, call_fault, jobs_before, ret>>

----------------------------------------------------------------------------
(* Bounds                                                                  *)

\* entries of a skills column handed to analyze_skills
MaxSeries == 2

\* rows of one jobs_df
MaxBatch == 2
\* last value of the engine's clock
MaxClock == 1
\* longest keyword given to fetch_jobs
MaxKwLen == 1

\* days the clock of the process moves on
MaxDays == 1

----------------------------------------------------------------------------
(* Optional values and text                                                *)

None == <<>>
Some(v) == <<v>>
Get(o) == o[1]

\* pd.isna(x)
isna(o) == Len(o) = 0

\* str(x) of an optional text: str(None) is the text None
str(o) == IF isna(o) THEN <<"N", "o", "n", "e">> ELSE Get(o)

RECURSIVE lstrip(_)
lstrip(t) == IF t # <<>> /\ Head(t) = " " THEN lstrip(Tail(t)) ELSE t

RECURSIVE rstrip(_)
rstrip(t) ==
    IF t # <<>> /\ t[Len(t)] = " " THEN rstrip(SubSeq(t, 1, Len(t) - 1)) ELSE t

\* str.strip()
strip(t) == rstrip(lstrip(t))

UpperChars == <<"A", "B", "C", "D", "E", "F", "G", "H", "I", "J", "K", "L", "M",
                "N", "O", "P", "Q", "R", "S", "T", "U", "V", "W", "X", "Y", "Z">>
LowerChars == <<"a", "b", "c", "d", "e", "f", "g", "h", "i", "j", "k", "l", "m",
                "n", "o", "p", "q", "r", "s", "t", "u", "v", "w", "x", "y", "z">>

LowerChar(c) ==
    IF \E i \in 1..Len(UpperChars) : UpperChars[i] = c
    THEN LowerChars[CHOOSE i \in 1..Len(UpperChars) : UpperChars[i] = c]
    ELSE c

\* lower(X) of SQLite: ASCII letters only
lower(t) == [i \in 1..Len(t) |-> LowerChar(t[i])]

DigitChars == <<"0", "1", "2", "3", "4", "5", "6", "7", "8", "9">>

\* the byte of a character of a date text
CharCode(c) ==
    IF c = "-" THEN 45
    ELSE 47 + (CHOOSE i \in 1..Len(DigitChars) : DigitChars[i] = c)

\* memcmp order of the BINARY collation
RECURSIVE TextLess(_, _)
TextLess(a, b) ==
    IF b = <<>> THEN FALSE
    ELSE IF a = <<>> THEN TRUE
    ELSE IF Head(a) # Head(b) THEN CharCode(Head(a)) < CharCode(Head(b))
    ELSE TextLess(Tail(a), Tail(b))

Pad2(n) == <<DigitChars[(n \div 10) + 1], DigitChars[(n % 10) + 1]>>

\* str(datetime.date): YYYY-MM-DD; str(pandas.Timestamp), a value of six
\* numbers: YYYY-MM-DD hh:mm:ss
StrDate(d) ==
    Pad2(d[1] \div 100) \o Pad2(d[1] % 100) \o <<"-">> \o Pad2(d[2])
        \o <<"-">> \o Pad2(d[3])
        \o (IF Len(d) = 3 THEN <<>>
            ELSE <<" ">> \o Pad2(d[4]) \o <<":">> \o Pad2(d[5])
                     \o <<":">> \o Pad2(d[6]))

\* pattern p of LIKE against text t: % is any run, _ any one character
RECURSIVE Like(_, _)
Like(t, p) ==
    IF p = <<>> THEN t = <<>>
    ELSE IF Head(p) = "%"
         THEN Like(t, Tail(p)) \/ (t # <<>> /\ Like(Tail(t), p))
    ELSE IF t = <<>> THEN FALSE
    ELSE (Head(p) = "_" \/ LowerChar(Head(p)) = LowerChar(Head(t)))
         /\ Like(Tail(t), Tail(p))

----------------------------------------------------------------------------
(* Inputs                                                                  *)

Procs == {"p1", "p2"}

\* the url column of a row of jobs_df
Urls == {None, Some(<<>>), Some(<<" ">>), Some(<<"a">>), Some(<<" ", "a">>),
         Some(<<"b">>)}

Titles == {Some(<<"D", "e", "v">>)}

Companies == {Some(<<"C", "o">>)}

Locations == {Some(<<"N", "Y">>)}

\* the skills column: the found skills joined by ", "
SkillsValues == {Some(<<"g", "o", ",", " ", "s", "q", "l">>)}

\* the date text as scraped
DatesPosted == {Some(<<"t", "o", "d", "a", "y">>)}

\* datetime.date values of the parsed_date column; None is NaT
Dates == {<<1969, 12, 31>>, <<2024, 1, 5>>}
ParsedDates == {None} \cup {Some(d) : d \in Dates}

Sources == {Some(<<"I", "n">>), Some(<<"L", "i">>)}

SearchKeywords == {Some(<<"a", "b">>), Some(<<"B">>)}

\* the portal each search was run on
Portal(keyword) ==
    IF keyword = Some(<<"a", "b">>) THEN Some(<<"I", "n">>) ELSE Some(<<"L", "i">>)

\* the rows of jobs_df: a row without a url carries one payload; the rows of
\* the second search all carry the same date
Records ==
    {r \in [title : Titles, company : Companies, location : Locations,
            skills : SkillsValues, date_posted : DatesPosted,
            parsed_date : ParsedDates, source : Sources,
            search_keyword : SearchKeywords, url : Urls] :
        /\ r.source = Portal(r.search_keyword)
        /\ r.search_keyword = Some(<<"B">>) => r.parsed_date = Some(<<2024, 1, 5>>)
        /\ (isna(r.url) \/ strip(Get(r.url)) = <<>>)
            => (isna(r.parsed_date) /\ r.search_keyword = Some(<<"a", "b">>))}

KwChars == {"a", "b", "B", "_", "%"}

Texts(chars, n) == UNION {[1..k -> chars] : k \in 0..n}

\* the keyword argument of fetch_jobs
KeywordArgs == {None} \cup {Some(t) : t \in Texts(KwChars, MaxKwLen)}

\* the source argument of fetch_jobs
SourceArgs == {None, Some(<<>>), Some(<<"i", "n">>), Some(<<"L", "i">>)}


----------------------------------------------------------------------------
(* The jobs table                                                          *)

\* what the connection of p reads: the file, or its own open transaction
View(p) == IF isna(txn[p]) THEN jobs ELSE Get(txn[p])

HasUrl(table, u) == \E i \in 1..Len(table) : table[i].url = u

\* the url column declared without UNIQUE
NoUniqueConstraint(table, tuple) == FALSE

\* url TEXT UNIQUE
UniqueViolation(table, tuple) == HasUrl(table, tuple.url)

\* the row is skipped before any insert is tried
MissingUrl(r) == isna(r.url) \/ strip(str(r.url)) = <<>>

\* str(row.get('parsed_date')) whatever the value: NaT gives "NaT"
parsed_date_str(r) ==
    IF isna(r.parsed_date) THEN Some(<<"N", "a", "T">>)
    ELSE Some(StrDate(Get(r.parsed_date)))

\* NaT becomes NULL, a date its text
parsed_date_val(r) ==
    IF isna(r.parsed_date) THEN None ELSE Some(StrDate(Get(r.parsed_date)))

\* the tuple with the url as the caller spelt it
data_tuple_unstripped(r) ==
    [title |-> str(r.title),
     company |-> str(r.company),
     location |-> str(r.location),
     skills |-> str(r.skills),
     date_posted |-> str(r.date_posted),
     parsed_date |-> parsed_date_val(r),
     source |-> str(r.source),
     search_keyword |-> str(r.search_keyword),
     url |-> str(r.url)]

data_tuple(r) ==
    [title |-> str(r.title),
     company |-> str(r.company),
     location |-> str(r.location),
     skills |-> str(r.skills),
     date_posted |-> str(r.date_posted),
     parsed_date |-> parsed_date_val(r),
     source |-> str(r.source),
     search_keyword |-> str(r.search_keyword),
     url |-> strip(str(r.url))]

\* the row as the engine stores it: scraped_at DEFAULT CURRENT_TIMESTAMP
StoredRow(tuple, time) ==
    [title |-> tuple.title, company |-> tuple.company,
     location |-> tuple.location, skills |-> tuple.skills,
     date_posted |-> tuple.date_posted, parsed_date |-> tuple.parsed_date,
     source |-> tuple.source, search_keyword |-> tuple.search_keyword,
     url |-> tuple.url, scraped_at |-> time]

\* INSERT OR REPLACE INTO jobs: the row with the same url is overwritten
InsertOrReplace(table, tuple, time) ==
    [status |-> "ok",
     table |-> IF HasUrl(table, tuple.url)
               THEN [i \in 1..Len(table) |->
                        IF table[i].url = tuple.url
                        THEN StoredRow(tuple, time) ELSE table[i]]
               ELSE Append(table, StoredRow(tuple, time))]

\* an insert that, finding the url stored, refreshes scraped_at of that row
InsertOrTouch(table, tuple, time) ==
    IF HasUrl(table, tuple.url)
    THEN [status |-> "unique",
          table |-> [i \in 1..Len(table) |->
                        IF table[i].url = tuple.url
                        THEN [table[i] EXCEPT !.scraped_at = time]
                        ELSE table[i]]]
    ELSE [status |-> "ok", table |-> Append(table, StoredRow(tuple, time))]

\* INSERT INTO jobs (...) VALUES (...): the statement on the table of the
\* transaction; a unique-constraint violation leaves the table as it was
InsertInto(table, tuple, time) ==
    IF UniqueViolation(table, tuple)
    THEN [status |-> "unique", table |-> table]
    ELSE [status |-> "ok", table |-> Append(table, StoredRow(tuple, time))]

\* a transaction that refuses every statement after one has failed
executeAborted(p, tuple, fault) ==
    IF ~tableExists \/ fault \/ lock \notin {"free", p} \/ error_rows[p] > 0
    THEN [status |-> "error", table |-> View(p)]
    ELSE InsertInto(View(p), tuple, now)

\* cursor.execute(insert_query, data_tuple) on the connection of p: the
\* statement cannot run ("error": no such table, database is locked, disk
\* I/O error, each a sqlite3.Error), or it runs
execute(p, tuple, fault) ==
    IF ~tableExists \/ fault \/ lock \notin {"free", p}
    THEN [status |-> "error", table |-> View(p)]
    ELSE InsertInto(View(p), tuple, now)

Idx(p) == inserted_rows[p] + skipped_due_to_duplicate[p] + error_rows[p]

----------------------------------------------------------------------------
(* init_db and the start of the dashboard                                  *)

NoCall == [p \in Procs |-> None]
Zero == [p \in Procs |-> 0]
Empty == [p \in Procs |-> <<>>]

Init ==
    /\ app = "import"
    /\ selftest_failed = FALSE
    /\ dbOpenable \in BOOLEAN
    /\ init_last = None
    /\ tableExists = FALSE
    /\ jobs = <<>>
    /\ now = 0
    /\ lock = "free"
    /\ pc = [p \in Procs |-> "idle"]
    /\ cur = NoCall
    /\ txn = NoCall
    /\ inserted_rows = Zero
    /\ skipped_due_to_duplicate = Zero
    /\ error_rows = Zero
    /\ seen_urls = Empty
    /\ call_fault = [p \in Procs |-> FALSE]
    /\ jobs_before = Empty
    /\ ret = NoCall
    /\ fetched = NoCall
    /\ today = <<2024, 1, 5>>
    /\ date_str = None
    /\ parsed = None
    /\ text_blob = None
    /\ skills = None
    /\ jobs_data = <<>>
    /\ skills_series = None
    /\ skill_counts = None

\* DROP TABLE IF EXISTS jobs, then CREATE TABLE jobs
init_db_recreate(fault) ==
    /\ tableExists' = (tableExists \/ (dbOpenable /\ ~fault))
    /\ init_last' = Some([error |-> ~dbOpenable \/ fault, rows |-> Len(jobs)])
    /\ jobs' = IF dbOpenable /\ ~fault THEN <<>> ELSE jobs

\* CREATE TABLE IF NOT EXISTS jobs: a sqlite3.Error is logged and swallowed
init_db(fault) ==
    /\ tableExists' = (tableExists \/ (dbOpenable /\ ~fault))
    /\ init_last' = Some([error |-> ~dbOpenable \/ fault, rows |-> Len(jobs)])
    /\ UNCHANGED jobs

\* "from utils.db_manager import ...": init_db() runs when the module loads
ModuleLoad ==
    /\ app = "import"
    /\ \E fault \in BOOLEAN : init_db(fault)
    /\ app' = "startup"
    /\ UNCHANGED <<selftest_failed, dbOpenable, parseVars, now, lock, pc, fetched>>
    /\ UNCHANGED storeVars

----------------------------------------------------------------------------
(* fetch_jobs                                                              *)

\* whether the query on the jobs table fails underneath (sqlite3.Error or
\* the DatabaseError of pandas)
QueryFails(fault) == ~dbOpenable \/ ~tableExists \/ fault

\* ORDER BY COALESCE(parsed_date, '1970-01-01') DESC, scraped_at DESC
OrderKey(row) ==
    IF isna(row.parsed_date) THEN StrDate(<<1970, 1, 1>>)
    ELSE Get(row.parsed_date)

\* row a must come before row b
SortsBefore(a, b) ==
    \/ TextLess(OrderKey(b), OrderKey(a))
    \/ OrderKey(a) = OrderKey(b) /\ a.scraped_at > b.scraped_at

\* a WHERE clause that also asks for a parsed date
MatchesDated(row, keyword, source) ==
    /\ ~isna(row.parsed_date)
    /\ (~isna(keyword) /\ Get(keyword) # <<>>)
        => Like(lower(row.search_keyword),
                lower(<<"%">> \o Get(keyword) \o <<"%">>))
    /\ (~isna(source) /\ Get(source) # <<>>)
        => lower(row.source) = lower(Get(source))

\* the WHERE clause: "if keyword:" and "if source:" add its conditions
Matches(row, keyword, source) ==
    /\ (~isna(keyword) /\ Get(keyword) # <<>>)
        => Like(lower(row.search_keyword),
                lower(<<"%">> \o Get(keyword) \o <<"%">>))
    /\ (~isna(source) /\ Get(source) # <<>>)
        => lower(row.source) = lower(Get(source))

\* the orders in which the engine may return the selected rows
Selections(table, keyword, source) ==
    LET hit == {i \in 1..Len(table) : Matches(table[i], keyword, source)}
        n == Cardinality(hit)
    IN  {[k \in 1..n |-> table[f[k]]] :
            f \in {g \in [1..n -> hit] :
                     /\ \A i, j \in 1..n : i # j => g[i] # g[j]
                     /\ \A i, j \in 1..n :
                            i < j => ~SortsBefore(table[g[j]], table[g[i]])}}

\* what fetch_jobs hands back: every exception is logged and swallowed, and
\* the DataFrame created empty before the try block is returned
FetchResult(keyword, source, failed, df) ==
    [keyword |-> keyword, source |-> source, failed |-> failed,
     raised |-> FALSE, df |-> IF failed THEN <<>> ELSE df]

\* a query that reads the rows of the open write transaction
read_uncommitted(p) == IF lock \in Procs THEN View(lock) ELSE jobs

\* the table a query on the connection of p reads: fetch_jobs opens its own
\* connection, which sees what has been committed
read_sql_query(p) == jobs

fetch_jobs(p, keyword, source, fault) ==
    /\ app = "running"
    /\ pc[p] = "idle"
    /\ \E df \in IF QueryFails(fault) THEN {<<>>}
                 ELSE Selections(read_sql_query(p), keyword, source) :
          fetched' = [fetched EXCEPT ![p] =
              Some(FetchResult(keyword, source, QueryFails(fault), df))]
    /\ pc' = [pc EXCEPT ![p] = "fetch_done"]
    /\ UNCHANGED <<app, selftest_failed, dbOpenable, parseVars, init_last, tableExists, jobs, now,
                   lock>>
    /\ UNCHANGED storeVars

\* the caller takes the DataFrame
fetch_jobs_return(p) ==
    /\ pc[p] = "fetch_done"
    /\ pc' = [pc EXCEPT ![p] = "idle"]
    /\ fetched' = [fetched EXCEPT ![p] = None]
    /\ UNCHANGED <<app, selftest_failed, dbOpenable, parseVars, init_last, tableExists, jobs, now,
                   lock>>
    /\ UNCHANGED storeVars

\* the self-test of app.py, fetch_jobs(keyword="selftest_app_startup"):
\* st.stop() is reached only when the call raises
Startup ==
    /\ app = "startup"
    /\ LET res == FetchResult(Some(<<"s">>), None, QueryFails(FALSE), <<>>)
       IN  /\ selftest_failed' = res.failed
           /\ app' = IF res.raised THEN "halted" ELSE "running"
    /\ UNCHANGED <<dbOpenable, parseVars, init_last, tableExists, jobs, now, lock, pc, fetched>>
    /\ UNCHANGED storeVars

\* the engine's clock advances
Tick ==
    /\ app = "running"
    /\ now < MaxClock
    /\ now' = now + 1
    /\ UNCHANGED <<app, selftest_failed, dbOpenable, parseVars, init_last, tableExists, jobs, lock,
                   pc, fetched>>
    /\ UNCHANGED storeVars

----------------------------------------------------------------------------
(* store_jobs                                                              *)

\* the call, up to the loop: an empty jobs_df or one without a url column
\* returns 0 at once; a failed sqlite3.connect is caught by the outer
\* handler, and no row has been counted by then
store_jobs_call(p, kind) ==
    /\ app = "running"
    /\ pc[p] = "idle"
    /\ jobs_before' = [jobs_before EXCEPT ![p] = jobs]
    /\ IF kind \in {"empty", "no_url_column"}
       THEN /\ pc' = [pc EXCEPT ![p] = "store_done"]
            /\ ret' = [ret EXCEPT ![p] = Some(0)]
            /\ UNCHANGED call_fault
       ELSE IF ~dbOpenable
       THEN /\ pc' = [pc EXCEPT ![p] = "store_done"]
            /\ ret' = [ret EXCEPT ![p] = Some(inserted_rows[p])]
            /\ call_fault' = [call_fault EXCEPT ![p] = TRUE]
       ELSE /\ pc' = [pc EXCEPT ![p] = "store_loop"]
            /\ UNCHANGED <<ret, call_fault>>
    /\ UNCHANGED <<app, selftest_failed, dbOpenable, parseVars, init_last, tableExists, jobs, now,
                   lock, fetched, cur, txn, inserted_rows,
                   skipped_due_to_duplicate, error_rows, seen_urls>>

\* one turn of "for _, row in jobs_df.iterrows()"
store_jobs_row(p, r, fault) ==
    /\ pc[p] = "store_loop"
    /\ Idx(p) < MaxBatch
    /\ IF MissingUrl(r)
       THEN /\ error_rows' = [error_rows EXCEPT ![p] = @ + 1]
            /\ cur' = [cur EXCEPT ![p] = Some([rec |-> r, fault |-> FALSE])]
            /\ UNCHANGED <<txn, inserted_rows, skipped_due_to_duplicate,
                           lock, seen_urls, call_fault>>
       ELSE LET tuple == data_tuple(r)
                res == execute(p, tuple, fault)
            IN  /\ cur' = [cur EXCEPT ![p] = Some([rec |-> r, fault |-> fault])]
                /\ seen_urls' = [seen_urls EXCEPT ![p] = Append(@, tuple.url)]
                /\ call_fault' =
                        [call_fault EXCEPT ![p] = @ \/ res.status = "error"]
                /\ lock' = IF res.status = "error" THEN lock ELSE p
                /\ txn' = [txn EXCEPT ![p] =
                        IF res.status = "error" THEN @ ELSE Some(res.table)]
                /\ inserted_rows' = [inserted_rows EXCEPT ![p] =
                        IF res.status = "ok" THEN @ + 1 ELSE @]
                /\ skipped_due_to_duplicate' =
                        [skipped_due_to_duplicate EXCEPT ![p] =
                            IF res.status = "unique" THEN @ + 1 ELSE @]
                /\ error_rows' = [error_rows EXCEPT ![p] =
                        IF res.status = "error" THEN @ + 1 ELSE @]
    /\ UNCHANGED <<app, selftest_failed, dbOpenable, parseVars, init_last, tableExists, jobs, now,
                   pc, fetched, jobs_before, ret>>

\* a return statement that counts the skipped duplicates too
ReturnsHandled(p) == inserted_rows[p] + skipped_due_to_duplicate[p]

\* the value of the return statement
ReturnValue(p) == inserted_rows[p]

\* conn.commit() after the loop; a sqlite3.Error there is caught, the
\* transaction is rolled back, and the function goes on to its return
store_jobs_commit(p, fault) ==
    /\ pc[p] = "store_loop"
    /\ Idx(p) >= 1
    /\ fault => View(p) # jobs
    /\ jobs' = IF fault THEN jobs ELSE View(p)
    /\ txn' = [txn EXCEPT ![p] = None]
    /\ lock' = IF lock = p THEN "free" ELSE lock
    /\ call_fault' = [call_fault EXCEPT ![p] = @ \/ fault]
    /\ ret' = [ret EXCEPT ![p] = Some(ReturnValue(p))]
    /\ pc' = [pc EXCEPT ![p] = "store_done"]
    /\ UNCHANGED <<app, selftest_failed, dbOpenable, parseVars, init_last, tableExists, now, fetched,
                   cur, inserted_rows, skipped_due_to_duplicate, error_rows,
                   seen_urls, jobs_before>>

\* the caller takes the count; the locals of the call are gone
store_jobs_return(p) ==
    /\ pc[p] = "store_done"
    /\ pc' = [pc EXCEPT ![p] = "idle"]
    /\ cur' = [cur EXCEPT ![p] = None]
    /\ inserted_rows' = [inserted_rows EXCEPT ![p] = 0]
    /\ skipped_due_to_duplicate' = [skipped_due_to_duplicate EXCEPT ![p] = 0]
    /\ error_rows' = [error_rows EXCEPT ![p] = 0]
    /\ seen_urls' = [seen_urls EXCEPT ![p] = <<>>]
    /\ call_fault' = [call_fault EXCEPT ![p] = FALSE]
    /\ jobs_before' = [jobs_before EXCEPT ![p] = <<>>]
    /\ ret' = [ret EXCEPT ![p] = None]
    /\ UNCHANGED <<app, selftest_failed, dbOpenable, parseVars, init_last, tableExists, jobs, now,
                   lock, fetched, txn>>

----------------------------------------------------------------------------
(* The dashboard: one script, one operation at a time                      *)

Main == "p1"

StoreCall ==
    \E kind \in {"empty", "no_url_column", "rows"} : store_jobs_call(Main, kind)

StoreRow ==
    \E r \in Records, fault \in BOOLEAN : store_jobs_row(Main, r, fault)

StoreCommit == \E fault \in BOOLEAN : store_jobs_commit(Main, fault)

StoreReturn == store_jobs_return(Main)

Fetch ==
    \E keyword \in KeywordArgs, source \in SourceArgs, fault \in BOOLEAN :
        fetch_jobs(Main, keyword, source, fault)

FetchReturn == fetch_jobs_return(Main)

Next ==
    \/ ModuleLoad
    \/ Startup
    \/ Tick
    \/ StoreCall
    \/ StoreRow
    \/ StoreCommit
    \/ StoreReturn
    \/ Fetch
    \/ FetchReturn

Spec == Init /\ [][Next]_vars

----------------------------------------------------------------------------
(* Two processes on one database file: store_jobs and fetch_jobs calls of  *)
(* each interleave row by row; the engine lets one connection write at a   *)
(* time, and an insert that finds the file locked raises sqlite3.Error     *)

\* the rows the processes store: one url in two spellings and two payloads,
\* and a second url
ConcRecords ==
    {r \in Records :
        /\ r.url \in {Some(<<"a">>), Some(<<" ", "a">>), Some(<<"b">>)}
        /\ r.url # Some(<<"a">>) => r.search_keyword = Some(<<"a", "b">>)
        /\ r.parsed_date = Some(<<2024, 1, 5>>)}

ConcStoreCall == \E p \in Procs : store_jobs_call(p, "rows")

ConcStoreRow == \E p \in Procs, r \in ConcRecords : store_jobs_row(p, r, FALSE)

ConcStoreCommit == \E p \in Procs, fault \in BOOLEAN : store_jobs_commit(p, fault)

ConcStoreReturn == \E p \in Procs : store_jobs_return(p)

ConcFetch == \E p \in Procs : fetch_jobs(p, None, None, FALSE)

ConcFetchReturn == \E p \in Procs : fetch_jobs_return(p)

NextConc ==
    \/ ModuleLoad
    \/ Startup
    \/ ConcStoreCall
    \/ ConcStoreRow
    \/ ConcStoreCommit
    \/ ConcStoreReturn
    \/ ConcFetch
    \/ ConcFetchReturn

SpecConc == Init /\ [][NextConc]_vars

----------------------------------------------------------------------------
(* The module is loaded again: every start of a process that imports       *)
(* utils.db_manager runs init_db() on the same file, whatever the          *)
(* dashboard is doing at that moment                                       *)

\* init_db() of another import
InitDb ==
    /\ app = "running"
    /\ \E fault \in BOOLEAN : init_db(fault)
    /\ UNCHANGED <<app, selftest_failed, dbOpenable, parseVars, now, lock, pc, fetched>>
    /\ UNCHANGED storeVars

\* the rows stored between the loads: two urls, one of them in two payloads
InitRecords ==
    {r \in Records :
        /\ r.url \in {Some(<<"a">>), Some(<<"b">>)}
        /\ r.url = Some(<<"b">>) => r.search_keyword = Some(<<"a", "b">>)
        /\ r.parsed_date = Some(<<2024, 1, 5>>)}

InitStoreRow ==
    \E r \in InitRecords, fault \in BOOLEAN : store_jobs_row(Main, r, fault)

InitFetch == fetch_jobs(Main, None, None, FALSE)

NextInit ==
    \/ ModuleLoad
    \/ Startup
    \/ InitDb
    \/ Tick
    \/ StoreCall
    \/ InitStoreRow
    \/ StoreCommit
    \/ StoreReturn
    \/ InitFetch
    \/ FetchReturn

SpecInit == Init /\ [][NextInit]_vars

----------------------------------------------------------------------------
(* store_jobs handed frames that lack columns or hold nulls                 *)

required_cols ==
    {"title", "company", "location", "skills", "date_posted", "parsed_date",
     "source", "search_keyword", "url"}

\* "for col in required_cols: if col not in jobs_df.columns": a missing
\* skills column is filled with "N/A", a missing parsed_date with NaT, any
\* other one with None
add_required_cols(row) ==
    [col \in required_cols |->
        IF col \in DOMAIN row THEN row[col]
        ELSE IF col = "skills" THEN Some(<<"N", "/", "A">>)
        ELSE None]

\* the columns the frames come with
ColumnSets ==
    {required_cols,
     required_cols \ {"title"},
     required_cols \ {"skills"},
     required_cols \ {"date_posted", "parsed_date"},
     required_cols \ {"source", "search_keyword"},
     {"url"}}

\* complete rows, and a row with nulls in two columns
FullRecords ==
    {r \in Records :
        /\ r.url \in {Some(<<"a">>), Some(<<"b">>)}
        /\ r.search_keyword = Some(<<"a", "b">>)
        /\ r.parsed_date = Some(<<2024, 1, 5>>)}

SparseRecords ==
    {add_required_cols([col \in cols |-> r[col]]) :
        cols \in ColumnSets, r \in FullRecords}
    \cup {[r EXCEPT !.company = None, !.location = None] : r \in FullRecords}

SparseStoreCall == store_jobs_call(Main, "rows")

SparseStoreRow == \E r \in SparseRecords : store_jobs_row(Main, r, FALSE)

NextSparse ==
    \/ ModuleLoad
    \/ Startup
    \/ Tick
    \/ SparseStoreCall
    \/ SparseStoreRow
    \/ StoreCommit
    \/ StoreReturn

SpecSparse == Init /\ [][NextSparse]_vars

----------------------------------------------------------------------------
(* The flat-layout module db_manager.py, as the stand-alone scrapers use   *)
(* it: init_db(), then store_jobs(df). Each row goes through               *)
(* DataFrame.to_sql(if_exists='append'), which commits it on its own       *)

\* the rows a stand-alone run stores
FlatRecords ==
    {r \in Records :
        /\ r.url \in {None, Some(<<>>), Some(<<"a">>), Some(<<" ", "a">>)}
        /\ r.parsed_date # Some(<<1969, 12, 31>>)}

\* row.get('url') is None or pd.isna(row.get('url'))
flat_MissingUrl(r) == isna(r.url)

\* the one-row frame handed to to_sql: the values as they are, the url
\* neither converted nor stripped, a date as its ISO text
flat_row_df(r) ==
    [title |-> Get(r.title),
     company |-> Get(r.company),
     location |-> Get(r.location),
     skills |-> Get(r.skills),
     date_posted |-> Get(r.date_posted),
     parsed_date |-> parsed_date_val(r),
     source |-> Get(r.source),
     search_keyword |-> Get(r.search_keyword),
     url |-> Get(r.url)]

\* row_df.to_sql('jobs', conn, if_exists='append', index=False): the insert
\* runs in a transaction of its own, committed when it succeeds
flat_to_sql(tuple, fault) ==
    IF fault
    THEN [status |-> "error", table |-> jobs]
    ELSE InsertInto(jobs, tuple, now)

\* init_db() and the import: sqlite3.connect is outside the try, so a file
\* that cannot be opened ends the run; the CREATE TABLE statement is taken
\* to succeed
FlatModuleLoad ==
    /\ app = "import"
    /\ tableExists' = dbOpenable
    /\ app' = IF dbOpenable THEN "running" ELSE "halted"
    /\ UNCHANGED <<selftest_failed, dbOpenable, parseVars, init_last, jobs, now, lock, pc, fetched>>
    /\ UNCHANGED storeVars

\* the call, up to the loop; an empty jobs_df returns 0 at once
flat_store_jobs_call(p, kind) ==
    /\ app = "running"
    /\ pc[p] = "idle"
    /\ jobs_before' = [jobs_before EXCEPT ![p] = jobs]
    /\ IF kind = "empty"
       THEN /\ pc' = [pc EXCEPT ![p] = "store_done"]
            /\ ret' = [ret EXCEPT ![p] = Some(0)]
       ELSE /\ pc' = [pc EXCEPT ![p] = "store_loop"]
            /\ UNCHANGED ret
    /\ UNCHANGED <<app, selftest_failed, dbOpenable, parseVars, init_last, tableExists, jobs, now,
                   lock, fetched, cur, txn, inserted_rows,
                   skipped_due_to_duplicate, error_rows, seen_urls,
                   call_fault>>

\* one turn of "for _, row in jobs_df.iterrows()"
flat_store_jobs_row(p, r, fault) ==
    /\ pc[p] = "store_loop"
    /\ Idx(p) < MaxBatch
    /\ IF flat_MissingUrl(r)
       THEN /\ error_rows' = [error_rows EXCEPT ![p] = @ + 1]
            /\ cur' = [cur EXCEPT ![p] = Some([rec |-> r, fault |-> FALSE])]
            /\ UNCHANGED <<jobs, inserted_rows, skipped_due_to_duplicate,
                           seen_urls, call_fault>>
       ELSE LET tuple == flat_row_df(r)
                res == flat_to_sql(tuple, fault)
            IN  /\ cur' = [cur EXCEPT ![p] = Some([rec |-> r, fault |-> fault])]
                /\ seen_urls' = [seen_urls EXCEPT ![p] = Append(@, tuple.url)]
                /\ call_fault' =
                        [call_fault EXCEPT ![p] = @ \/ res.status = "error"]
                /\ jobs' = res.table
                /\ inserted_rows' = [inserted_rows EXCEPT ![p] =
                        IF res.status = "ok" THEN @ + 1 ELSE @]
                /\ skipped_due_to_duplicate' =
                        [skipped_due_to_duplicate EXCEPT ![p] =
                            IF res.status = "unique" THEN @ + 1 ELSE @]
                /\ error_rows' = [error_rows EXCEPT ![p] =
                        IF res.status = "error" THEN @ + 1 ELSE @]
    /\ UNCHANGED <<app, selftest_failed, dbOpenable, parseVars, init_last, tableExists, now, lock,
                   pc, fetched, txn, jobs_before, ret>>

\* conn.close() and "return inserted_rows"
flat_store_jobs_end(p) ==
    /\ pc[p] = "store_loop"
    /\ Idx(p) >= 1
    /\ ret' = [ret EXCEPT ![p] = Some(inserted_rows[p])]
    /\ pc' = [pc EXCEPT ![p] = "store_done"]
    /\ UNCHANGED <<app, selftest_failed, dbOpenable, parseVars, init_last, tableExists, jobs, now,
                   lock, fetched, cur, txn, inserted_rows,
                   skipped_due_to_duplicate, error_rows, seen_urls,
                   call_fault, jobs_before>>

FlatStoreCall == \E kind \in {"empty", "rows"} : flat_store_jobs_call(Main, kind)

FlatStoreRow ==
    \E r \in FlatRecords, fault \in BOOLEAN : flat_store_jobs_row(Main, r, fault)

FlatStoreEnd == flat_store_jobs_end(Main)

FlatStoreReturn == store_jobs_return(Main)

NextFlat ==
    \/ FlatModuleLoad
    \/ FlatStoreCall
    \/ FlatStoreRow
    \/ FlatStoreEnd
    \/ FlatStoreReturn
    \/ Tick

SpecFlat == Init /\ [][NextFlat]_vars

----------------------------------------------------------------------------
(* datetime.date and timedelta                                             *)

IsLeap(y) == (y % 4 = 0) /\ ((y % 100 # 0) \/ (y % 400 = 0))

DaysInMonth(y, m) ==
    IF m = 2 THEN (IF IsLeap(y) THEN 29 ELSE 28)
    ELSE IF m \in {4, 6, 9, 11} THEN 30 ELSE 31

\* days before January 1st of year y
DaysBeforeYear(y) ==
    (y - 1) * 365 + ((y - 1) \div 4) - ((y - 1) \div 100) + ((y - 1) \div 400)

RECURSIVE DaysBeforeMonth(_, _)
DaysBeforeMonth(y, m) ==
    IF m = 1 THEN 0 ELSE DaysBeforeMonth(y, m - 1) + DaysInMonth(y, m - 1)

\* date.toordinal(): 0001-01-01 is day 1
toordinal(d) == DaysBeforeYear(d[1]) + DaysBeforeMonth(d[1], d[2]) + d[3]

\* date.fromordinal(n), for n in 1..3652059
fromordinal(n) ==
    LET y == CHOOSE yy \in (((n - 1) \div 366) + 1)..(((n - 1) \div 365) + 1) :
                 DaysBeforeYear(yy) < n /\ n <= DaysBeforeYear(yy + 1)
        r == n - DaysBeforeYear(y)
        m == CHOOSE mm \in 1..12 :
                 /\ DaysBeforeMonth(y, mm) < r
                 /\ r <= DaysBeforeMonth(y, mm) + DaysInMonth(y, mm)
    IN  <<y, m, r - DaysBeforeMonth(y, m)>>

\* how a call ends: with a value, or with an exception that leaves it
Returns(v) == [raised |-> FALSE, value |-> v]
Raises == [raised |-> TRUE, value |-> None]

\* (current_time - timedelta(days=days)).date(): timedelta takes at most
\* 999999999 days and no date lies before 0001-01-01; beyond either,
\* OverflowError
MinusDays(day, days) ==
    IF days > 999999999 \/ toordinal(day) - days < 1
    THEN Raises
    ELSE Returns(Some(fromordinal(toordinal(day) - days)))

----------------------------------------------------------------------------
(* parse_relative_date                                                     *)

\* sub in text
Contains(text, sub) ==
    \E i \in 1..(Len(text) - Len(sub) + 1) :
        SubSeq(text, i, i + Len(sub) - 1) = sub

StartsAt(text, i, w) ==
    i + Len(w) - 1 <= Len(text) /\ SubSeq(text, i, i + Len(w) - 1) = w

IsDigit(c) == \E k \in 1..Len(DigitChars) : DigitChars[k] = c

DigitVal(c) == (CHOOSE k \in 1..Len(DigitChars) : DigitChars[k] = c) - 1

\* first index from i on whose character is outside chars
RECURSIVE SkipWhile(_, _, _)
SkipWhile(text, i, chars) ==
    IF i <= Len(text) /\ text[i] \in chars
    THEN SkipWhile(text, i + 1, chars) ELSE i

DigitSet == {DigitChars[k] : k \in 1..Len(DigitChars)}

\* int(match.group(1))
RECURSIVE int(_)
int(digits) ==
    IF digits = <<>> THEN 0
    ELSE int(SubSeq(digits, 1, Len(digits) - 1)) * 10
            + DigitVal(digits[Len(digits)])

\* r'(\d+)\s+unit(s)?\s+ago' matched at index i: the digits, white space,
\* the unit with or without its s, white space, "ago"
AgoMatchAt(text, i, unit) ==
    /\ i <= Len(text)
    /\ IsDigit(text[i])
    /\ LET j == SkipWhile(text, i, DigitSet)
           k == SkipWhile(text, j, {" "})
       IN  /\ k > j
           /\ StartsAt(text, k, unit)
           /\ \E e \in {k + Len(unit), k + Len(unit) + 1} :
                 /\ e = k + Len(unit) + 1 => StartsAt(text, k + Len(unit), <<"s">>)
                 /\ SkipWhile(text, e, {" "}) > e
                 /\ StartsAt(text, SkipWhile(text, e, {" "}), <<"a", "g", "o">>)

\* re.search: the places where the pattern matches
AgoMatches(text, unit) == {i \in 1..Len(text) : AgoMatchAt(text, i, unit)}

\* group(1) of the leftmost match
AgoNumber(text, unit) ==
    LET i == CHOOSE a \in AgoMatches(text, unit) :
                 \A b \in AgoMatches(text, unit) : a <= b
    IN  int(SubSeq(text, i, SkipWhile(text, i, DigitSet) - 1))

SameDayTerms ==
    {<<"j", "u", "s", "t", " ", "p", "o", "s", "t", "e", "d">>,
     <<"p", "o", "s", "t", "e", "d", " ", "t", "o", "d", "a", "y">>,
     <<"a", "c", "t", "i", "v", "e", " ", "t", "o", "d", "a", "y">>,
     <<"t", "o", "d", "a", "y">>}

SubDayTerms == {<<"h", "o", "u", "r">>, <<"m", "i", "n", "u", "t", "e">>, <<"m", "o", "m", "e", "n", "t">>}

\* "parsed = dateparser.parse(...)", a library call: it finds a date, finds
\* none, or raises; the exception is caught and logged
dateparser_fallback(out) == IF out.raised THEN None ELSE out.value

parse_relative_date(s, day, found) ==
    IF isna(s) \/ Get(s) = <<>> THEN Returns(None)
    ELSE LET date_str_lower == strip(lower(str(s)))
         IN  IF \E term \in SameDayTerms : Contains(date_str_lower, term)
             THEN Returns(Some(day))
             ELSE IF AgoMatches(date_str_lower, <<"d", "a", "y">>) # {}
             THEN MinusDays(day, AgoNumber(date_str_lower, <<"d", "a", "y">>))
             ELSE IF \E term \in SubDayTerms : Contains(date_str_lower, term)
             THEN Returns(Some(day))
             ELSE IF AgoMatches(date_str_lower, <<"w", "e", "e", "k">>) # {}
             THEN MinusDays(day, 7 * AgoNumber(date_str_lower, <<"w", "e", "e", "k">>))
             ELSE IF AgoMatches(date_str_lower, <<"m", "o", "n", "t", "h">>) # {}
             THEN MinusDays(day, AgoNumber(date_str_lower, <<"m", "o", "n", "t", "h">>) * 30)
             ELSE Returns(dateparser_fallback(found))

\* str(n) of a non-negative integer
RECURSIVE Digits(_)
Digits(n) ==
    IF n < 10 THEN <<DigitChars[n + 1]>>
    ELSE Digits(n \div 10) \o <<DigitChars[(n % 10) + 1]>>

\* the numbers of the relative expressions: small ones, and the two around
\* the first day of the calendar as seen from 2024-01-05
DateNs == {0, 1, 7, 30, 738889, 738890}

DateUnits ==
    {<<"d", "a", "y">>, <<"d", "a", "y", "s">>,
     <<"w", "e", "e", "k">>, <<"w", "e", "e", "k", "s">>,
     <<"m", "o", "n", "t", "h">>, <<"m", "o", "n", "t", "h", "s">>}

Ago(n, unit) == Digits(n) \o <<" ">> \o unit \o <<" ", "a", "g", "o">>

\* date texts of the portals, some of them matching two rules
OtherDateTexts ==
    {<<" ", " ">>,
     <<"T", "o", "d", "a", "y">>,
     <<"J", "u", "s", "t", " ", "p", "o", "s", "t", "e", "d">>,
     <<"3", " ", "h", "o", "u", "r", "s", " ", "a", "g", "o">>,
     <<"P", "o", "s", "t", "e", "d", " ", "2", " ", "D", "a", "y", "s", " ", "A", "g", "o">>,
     <<"t", "o", "d", "a", "y", " ", "2", " ", "d", "a", "y", "s", " ", "a", "g", "o">>,
     <<"1", " ", "h", "o", "u", "r", " ", "2", " ", "d", "a", "y", "s", " ", "a", "g", "o">>,
     <<"1", " ", "w", "e", "e", "k", " ", "a", "g", "o", " ", "1", " ", "h", "o", "u", "r">>,
     <<"2", " ", "w", "e", "e", "k", "s", " ", "a", "g", "o", " ", "1", " ", "m", "o", "n", "t", "h", " ", "a", "g", "o">>,
     <<"3", "0", "+", " ", "d", "a", "y", "s", " ", "a", "g", "o">>,
     <<"y", "e", "s", "t", "e", "r", "d", "a", "y">>}

DateTexts ==
    {None, Some(<<>>)}
        \cup {Some(Ago(n, unit)) : n \in DateNs, unit \in DateUnits}
        \cup {Some(t) : t \in OtherDateTexts}

DateparserOutcomes == {Raises, Returns(None), Returns(Some(<<2024, 1, 4>>))}

\* a call parse_relative_date(date_str)
ParseDate ==
    /\ \E s \in DateTexts, found \in DateparserOutcomes :
          /\ date_str' = s
          /\ parsed' = Some([out |-> parse_relative_date(s, today, found),
                           day |-> today])
    /\ UNCHANGED <<app, selftest_failed, dbOpenable, init_last, tableExists,
                   jobs, now, lock, pc, fetched, today, text_blob, skills,
                   ingestVars>>
    /\ UNCHANGED storeVars

\* midnight passes: datetime.now() is a day later
Midnight ==
    /\ toordinal(today) < toordinal(<<2024, 1, 5>>) + MaxDays
    /\ today' = fromordinal(toordinal(today) + 1)
    /\ UNCHANGED <<app, selftest_failed, dbOpenable, init_last, tableExists,
                   jobs, now, lock, pc, fetched, date_str, parsed, text_blob,
                   skills, ingestVars>>
    /\ UNCHANGED storeVars

----------------------------------------------------------------------------
(* extract_skills_from_text                                                *)

\* the printable characters in code-point order, from the space on; the
\* double quote, the backslash and the grave accent are written as words
Ascii ==
    <<" ", "!", "quote", "#", "$", "%", "&", "'", "(", ")", "*", "+",
      ",", "-", ".", "/", "0", "1", "2", "3", "4", "5", "6", "7",
      "8", "9", ":", ";", "<", "=", ">", "?", "@", "A", "B", "C",
      "D", "E", "F", "G", "H", "I", "J", "K", "L", "M", "N", "O",
      "P", "Q", "R", "S", "T", "U", "V", "W", "X", "Y", "Z", "[",
      "backslash", "]", "^", "_", "backtick", "a", "b", "c", "d", "e", "f", "g",
      "h", "i", "j", "k", "l", "m", "n", "o", "p", "q", "r", "s",
      "t", "u", "v", "w", "x", "y", "z", "{", "|", "}", "~">>

\* ord(c)
ord(c) == 31 + (CHOOSE k \in 1..Len(Ascii) : Ascii[k] = c)

\* a < b for str: by code points, a proper prefix first
RECURSIVE StrLess(_, _)
StrLess(a, b) ==
    IF b = <<>> THEN FALSE
    ELSE IF a = <<>> THEN TRUE
    ELSE IF Head(a) # Head(b) THEN ord(Head(a)) < ord(Head(b))
    ELSE StrLess(Tail(a), Tail(b))

COMMON_SKILLS ==
    {<<".", "n", "e", "t">>,
     <<"a", "d", "o", "b", "e", " ", "x", "d">>,
     <<"a", "g", "i", "l", "e">>,
     <<"a", "i">>,
     <<"a", "i", "r", "f", "l", "o", "w">>,
     <<"a", "l", "g", "o", "r", "i", "t", "h", "m", "s">>,
     <<"a", "n", "g", "u", "l", "a", "r">>,
     <<"a", "n", "g", "u", "l", "a", "r", "j", "s">>,
     <<"a", "n", "s", "i", "b", "l", "e">>,
     <<"a", "p", "i">>,
     <<"a", "p", "i", " ", "d", "e", "v", "e", "l", "o", "p", "m", "e", "n", "t">>,
     <<"a", "r", "t", "i", "f", "i", "c", "i", "a", "l", " ", "i", "n", "t", "e", "l", "l", "i", "g", "e", "n", "c", "e">>,
     <<"a", "s", "p", ".", "n", "e", "t">>,
     <<"a", "w", "s">>,
     <<"a", "z", "u", "r", "e">>,
     <<"b", "a", "s", "h">>,
     <<"b", "e", "a", "u", "t", "i", "f", "u", "l", "s", "o", "u", "p">>,
     <<"b", "i", "g", " ", "d", "a", "t", "a">>,
     <<"c", "#">>,
     <<"c", "+", "+">>,
     <<"c", "i", "/", "c", "d">>,
     <<"c", "l", "o", "u", "d", " ", "c", "o", "m", "p", "u", "t", "i", "n", "g">>,
     <<"c", "o", "m", "m", "u", "n", "i", "c", "a", "t", "i", "o", "n">>,
     <<"c", "o", "m", "p", "u", "t", "e", "r", " ", "v", "i", "s", "i", "o", "n">>,
     <<"c", "s", "s">>,
     <<"c", "y", "b", "e", "r", "s", "e", "c", "u", "r", "i", "t", "y">>,
     <<"d", "a", "t", "a", " ", "a", "n", "a", "l", "y", "s", "i", "s">>,
     <<"d", "a", "t", "a", " ", "p", "i", "p", "e", "l", "i", "n", "e", "s">>,
     <<"d", "a", "t", "a", " ", "s", "c", "i", "e", "n", "c", "e">>,
     <<"d", "a", "t", "a", " ", "s", "t", "r", "u", "c", "t", "u", "r", "e", "s">>,
     <<"d", "a", "t", "a", " ", "v", "i", "s", "u", "a", "l", "i", "z", "a", "t", "i", "o", "n">>,
     <<"d", "a", "t", "a", " ", "w", "a", "r", "e", "h", "o", "u", "s", "i", "n", "g">>,
     <<"d", "e", "e", "p", " ", "l", "e", "a", "r", "n", "i", "n", "g">>,
     <<"d", "e", "v", "o", "p", "s">>,
     <<"d", "j", "a", "n", "g", "o">>,
     <<"d", "l">>,
     <<"d", "o", "c", "k", "e", "r">>,
     <<"e", "t", "l">>,
     <<"e", "x", "c", "e", "l">>,
     <<"e", "x", "p", "r", "e", "s", "s", ".", "j", "s">>,
     <<"f", "i", "g", "m", "a">>,
     <<"f", "l", "a", "s", "k">>,
     <<"g", "c", "p">>,
     <<"g", "i", "t">>,
     <<"g", "i", "t", "h", "u", "b">>,
     <<"g", "i", "t", "h", "u", "b", " ", "a", "c", "t", "i", "o", "n", "s">>,
     <<"g", "i", "t", "l", "a", "b", " ", "c", "i">>,
     <<"g", "o">>,
     <<"g", "o", "l", "a", "n", "g">>,
     <<"g", "r", "a", "p", "h", "q", "l">>,
     <<"h", "a", "d", "o", "o", "p">>,
     <<"h", "t", "m", "l">>,
     <<"i", "n", "f", "o", "r", "m", "a", "t", "i", "o", "n", " ", "s", "e", "c", "u", "r", "i", "t", "y">>,
     <<"j", "a", "v", "a">>,
     <<"j", "a", "v", "a", "s", "c", "r", "i", "p", "t">>,
     <<"j", "e", "n", "k", "i", "n", "s">>,
     <<"j", "i", "r", "a">>,
     <<"k", "8", "s">>,
     <<"k", "a", "f", "k", "a">>,
     <<"k", "a", "n", "b", "a", "n">>,
     <<"k", "e", "r", "a", "s">>,
     <<"k", "o", "t", "l", "i", "n">>,
     <<"k", "u", "b", "e", "r", "n", "e", "t", "e", "s">>,
     <<"l", "a", "r", "a", "v", "e", "l">>,
     <<"l", "e", "a", "d", "e", "r", "s", "h", "i", "p">>,
     <<"l", "i", "n", "u", "x">>,
     <<"m", "a", "c", "h", "i", "n", "e", " ", "l", "e", "a", "r", "n", "i", "n", "g">>,
     <<"m", "i", "c", "r", "o", "s", "e", "r", "v", "i", "c", "e", "s">>,
     <<"m", "l">>,
     <<"m", "o", "n", "g", "o", "d", "b">>,
     <<"m", "y", "s", "q", "l">>,
     <<"n", "e", "x", "t", ".", "j", "s">>,
     <<"n", "l", "p">>,
     <<"n", "o", "d", "e", ".", "j", "s">>,
     <<"n", "o", "s", "q", "l">>,
     <<"n", "u", "m", "p", "y">>,
     <<"o", "b", "j", "e", "c", "t", "-", "o", "r", "i", "e", "n", "t", "e", "d", " ", "p", "r", "o", "g", "r", "a", "m", "m", "i", "n", "g">>,
     <<"o", "o", "p">>,
     <<"o", "p", "e", "n", "c", "v">>,
     <<"p", "a", "n", "d", "a", "s">>,
     <<"p", "e", "n", "e", "t", "r", "a", "t", "i", "o", "n", " ", "t", "e", "s", "t", "i", "n", "g">>,
     <<"p", "h", "p">>,
     <<"p", "o", "s", "t", "g", "r", "e", "s", "q", "l">>,
     <<"p", "o", "w", "e", "r", " ", "b", "i">>,
     <<"p", "r", "o", "b", "l", "e", "m", " ", "s", "o", "l", "v", "i", "n", "g">>,
     <<"p", "r", "o", "j", "e", "c", "t", " ", "m", "a", "n", "a", "g", "e", "m", "e", "n", "t">>,
     <<"p", "y", "t", "h", "o", "n">>,
     <<"p", "y", "t", "o", "r", "c", "h">>,
     <<"r">>,
     <<"r", "e", "a", "c", "t">>,
     <<"r", "e", "a", "c", "t", "j", "s">>,
     <<"r", "e", "s", "t">>,
     <<"r", "e", "s", "t", "f", "u", "l", " ", "a", "p", "i", "s">>,
     <<"r", "u", "b", "y", " ", "o", "n", " ", "r", "a", "i", "l", "s">>,
     <<"r", "u", "s", "t">>,
     <<"s", "c", "a", "l", "a">>,
     <<"s", "c", "i", "k", "i", "t", "-", "l", "e", "a", "r", "n">>,
     <<"s", "c", "i", "p", "y">>,
     <<"s", "c", "r", "u", "m">>,
     <<"s", "e", "l", "e", "n", "i", "u", "m">>,
     <<"s", "e", "r", "v", "e", "r", "l", "e", "s", "s">>,
     <<"s", "h", "e", "l", "l", " ", "s", "c", "r", "i", "p", "t", "i", "n", "g">>,
     <<"s", "k", "e", "t", "c", "h">>,
     <<"s", "k", "l", "e", "a", "r", "n">>,
     <<"s", "p", "a", "r", "k">>,
     <<"s", "p", "r", "i", "n", "g">>,
     <<"s", "p", "r", "i", "n", "g", " ", "b", "o", "o", "t">>,
     <<"s", "q", "l">>,
     <<"s", "r", "e">>,
     <<"s", "t", "a", "t", "i", "s", "t", "i", "c", "s">>,
     <<"s", "w", "i", "f", "t">>,
     <<"t", "a", "b", "l", "e", "a", "u">>,
     <<"t", "e", "a", "m", "w", "o", "r", "k">>,
     <<"t", "e", "n", "s", "o", "r", "f", "l", "o", "w">>,
     <<"t", "e", "r", "r", "a", "f", "o", "r", "m">>,
     <<"t", "y", "p", "e", "s", "c", "r", "i", "p", "t">>,
     <<"u", "i", "/", "u", "x">>,
     <<"u", "n", "i", "x">>,
     <<"v", "u", "e">>,
     <<"v", "u", "e", "j", "s">>}

\* the skills looked up with "skill in text_blob_lower"
SubstringSkills ==
    {<<".", "n", "e", "t">>,
     <<"c", "#">>,
     <<"c", "+", "+">>,
     <<"n", "o", "d", "e", ".", "j", "s">>,
     <<"e", "x", "p", "r", "e", "s", "s", ".", "j", "s">>,
     <<"r", "e", "a", "c", "t", ".", "j", "s">>,
     <<"v", "u", "e", ".", "j", "s">>,
     <<"a", "s", "p", ".", "n", "e", "t">>,
     <<"u", "i", "/", "u", "x">>}

\* \w
IsWordChar(c) ==
    \/ IsDigit(c)
    \/ c = "_"
    \/ \E k \in 1..Len(LowerChars) : LowerChars[k] = c
    \/ \E k \in 1..Len(UpperChars) : UpperChars[k] = c

WordAt(text, k) == k >= 1 /\ k <= Len(text) /\ IsWordChar(text[k])

\* \b in front of index k
Boundary(text, k) == WordAt(text, k - 1) # WordAt(text, k)

\* skill in text, for every skill
SubstringSearch(skill, text) == Contains(text, skill)

\* re.search(r'\b' + re.escape(skill) + r'\b', text)
WordSearch(skill, text) ==
    \E i \in 1..(Len(text) - Len(skill) + 1) :
        /\ SubSeq(text, i, i + Len(skill) - 1) = skill
        /\ Boundary(text, i)
        /\ Boundary(text, i + Len(skill))

\* found_skills after the loop over COMMON_SKILLS
found_skills(text_blob_lower) ==
    {skill \in COMMON_SKILLS :
        /\ skill # <<>>
        /\ IF skill \in SubstringSkills
           THEN Contains(text_blob_lower, skill)
           ELSE WordSearch(skill, text_blob_lower)}

\* str.replace(old, new)
RECURSIVE replace(_, _, _)
replace(text, old, new) ==
    IF Len(text) < Len(old) \/ text = <<>> THEN text
    ELSE IF SubSeq(text, 1, Len(old)) = old
    THEN new \o replace(SubSeq(text, Len(old) + 1, Len(text)), old, new)
    ELSE <<Head(text)>> \o replace(Tail(text), old, new)

\* every dot of the skill dropped
normalize_dots(skill) == replace(skill, <<".">>, <<>>)

\* the skill as it was found
normalize_nothing(skill) == skill

\* the spelling a found skill is returned in
normalize(skill) ==
    IF Contains(skill, <<".", "j", "s">>)
    THEN replace(skill, <<".", "j", "s">>, <<"j", "s">>)
    ELSE skill

normalized_skills(found) == {normalize(skill) : skill \in found}

\* list(a set): its elements in some order
Lists(S) ==
    {f \in [1..Cardinality(S) -> S] :
        \A i, j \in 1..Cardinality(S) : f[i] = f[j] => i = j}

RECURSIVE Insert(_, _)
Insert(x, seq) ==
    IF seq = <<>> THEN <<x>>
    ELSE IF StrLess(x, Head(seq)) THEN <<x>> \o seq
    ELSE <<Head(seq)>> \o Insert(x, Tail(seq))

\* the list as it is, not sorted
unsorted(seq) == seq

\* sorted(list)
RECURSIVE sorted(_)
sorted(seq) ==
    IF seq = <<>> THEN <<>> ELSE Insert(Head(seq), sorted(Tail(seq)))

\* the results the call can have, one for each order of the set
extract_skills_from_text(blob) ==
    IF isna(blob) \/ Get(blob) = <<>> THEN {<<>>}
    ELSE LET text_blob_lower == lower(str(blob))
         IN  {sorted(l) :
                l \in Lists(normalized_skills(found_skills(text_blob_lower)))}

\* words of job descriptions: skills, skills inside longer words, spellings
\* that are normalized
BlobWords ==
    {<<"G", "o">>,
     <<"g", "o", "i", "n", "g">>,
     <<"J", "a", "v", "a">>,
     <<"j", "a", "v", "a", "s", "c", "r", "i", "p", "t">>,
     <<"C", "+", "+">>,
     <<"N", "o", "d", "e", ".", "j", "s">>,
     <<"n", "e", "x", "t", ".", "j", "s">>,
     <<"R">>,
     <<"A", "I", "/", "M", "L">>,
     <<"a", "s", "p", ".", "n", "e", "t">>}

\* descriptions: nothing, one word, two words, two sentences, and a skill
\* with a version number
TextBlobs ==
    {None, Some(<<>>)}
        \cup {Some(w) : w \in BlobWords}
        \cup {Some(v \o <<" ">> \o w) : v, w \in BlobWords}
        \cup {Some(<<"W", "e", " ", "a", "r", "e", " ", "g", "o", "i", "n", "g", " ", "p", "l", "a", "c", "e", "s">>),
              Some(<<"S", "e", "n", "i", "o", "r", " ", "C", "+", "+", " ", "E", "n", "g", "i", "n", "e", "e", "r">>),
              Some(<<"N", "e", "x", "t", ".", "j", "s", "1", "4">>)}

\* a call extract_skills_from_text(text_blob)
ExtractSkills ==
    /\ \E blob \in TextBlobs :
          /\ text_blob' = blob
          /\ \E l \in extract_skills_from_text(blob) : skills' = Some(l)
    /\ UNCHANGED <<app, selftest_failed, dbOpenable, init_last, tableExists,
                   jobs, now, lock, pc, fetched, today, date_str, parsed,
                   ingestVars>>
    /\ UNCHANGED storeVars

----------------------------------------------------------------------------
(* The parsers, each called any number of times                            *)

NextDates ==
    \/ ParseDate
    \/ Midnight

SpecDates == Init /\ [][NextDates]_vars

NextSkills == ExtractSkills

SpecSkills == Init /\ [][NextSkills]_vars

----------------------------------------------------------------------------
(* analyze_skills: a Series of skills texts and nulls                      *)

\* str.split(sep), sep one character
RECURSIVE split(_, _)
split(text, sep) ==
    IF \A i \in 1..Len(text) : text[i] # sep THEN <<text>>
    ELSE LET k == CHOOSE i \in 1..Len(text) :
                      text[i] = sep /\ \A j \in 1..(i - 1) : text[j] # sep
         IN  <<SubSeq(text, 1, k - 1)>>
                 \o split(SubSeq(text, k + 1, Len(text)), sep)

\* an entry stripped, its brackets kept
strip_only(skill_entry) == strip(skill_entry)

\* cleaned_entry: the entry stripped and, when it starts with "[" and ends
\* with "]", without the two
cleaned_entry(skill_entry) ==
    LET cleaned == strip(skill_entry)
    IN  IF cleaned # <<>> /\ Head(cleaned) = "[" /\ cleaned[Len(cleaned)] = "]"
        THEN SubSeq(cleaned, 2, Len(cleaned) - 1)
        ELSE cleaned

\* [s.strip().lower() for s in parts if s.strip()]
RECURSIVE strip_lower(_)
strip_lower(parts) ==
    IF parts = <<>> THEN <<>>
    ELSE IF strip(Head(parts)) = <<>> THEN strip_lower(Tail(parts))
    ELSE <<lower(strip(Head(parts)))>> \o strip_lower(Tail(parts))

current_skills(skill_entry) ==
    strip_lower(split(cleaned_entry(skill_entry), ","))

\* the loop over skills_series.dropna()
RECURSIVE all_skills_flat_list(_)
all_skills_flat_list(series) ==
    IF series = <<>> THEN <<>>
    ELSE IF isna(Head(series)) THEN all_skills_flat_list(Tail(series))
    ELSE current_skills(Get(Head(series)))
             \o all_skills_flat_list(Tail(series))

\* collections.Counter(list): each element with the number of its places
Counter(list) ==
    [t \in {list[i] : i \in 1..Len(list)} |->
        Cardinality({i \in 1..Len(list) : list[i] = t})]

analyze_skills(series) ==
    IF \A i \in 1..Len(series) : isna(series[i]) THEN Counter(<<>>)
    ELSE Counter(all_skills_flat_list(series))

\* values of a skills column
SkillEntries ==
    {None,
     Some(<<>>),
     Some(<<"p", "y", "t", "h", "o", "n", ",", " ", "s", "q", "l">>),
     Some(<<"p", "y", "t", "h", "o", "n", ",", " ", "g", "o">>),
     Some(<<"[", "G", "o", ",", " ", "S", "Q", "L", " ", "]">>),
     Some(<<" ", "[", "g", "o", "]", " ">>),
     Some(<<"g", "o", ",", ",", "s", "q", "l", " ", ",">>),
     Some(<<"[", "g", "o">>),
     Some(<<"[", "]">>),
     Some(<<"[", "[", "g", "o", "]", "]">>),
     Some(<<"N", "/", "A">>)}

SkillSeries == UNION {[1..n -> SkillEntries] : n \in 0..MaxSeries}

\* a call analyze_skills(skills_series)
AnalyzeSkills ==
    /\ \E series \in SkillSeries :
          /\ skills_series' = Some(series)
          /\ skill_counts' = Some(analyze_skills(series))
    /\ UNCHANGED <<app, selftest_failed, dbOpenable, init_last, tableExists,
                   jobs, now, lock, pc, fetched, today, date_str, parsed,
                   text_blob, skills, jobs_data>>
    /\ UNCHANGED storeVars

NextAnalyze == AnalyzeSkills

SpecAnalyze == Init /\ [][NextAnalyze]_vars

----------------------------------------------------------------------------
(* The ingestion pipeline: the Indeed scraper builds one record a card,    *)
(* the "Scrape & Analyze Jobs" handler converts the dates and calls        *)
(* store_jobs, the display fetches all rows and counts their skills.       *)
(* Storage faults are left to the specifications above.                    *)

CardTitles ==
    {<<"S", "e", "n", "i", "o", "r", " ", "C", "+", "+", " ", "E", "n", "g", "i", "n", "e", "e", "r">>,
     <<"W", "e", " ", "a", "r", "e", " ", "g", "o", "i", "n", "g", " ", "p", "l", "a", "c", "e", "s">>,
     <<"N", "o", "d", "e", ".", "j", "s", " ", "J", "a", "v", "a">>}

\* the date texts of the cards, each with what dateparser makes of it
CardDates ==
    {[text |-> <<"P", "o", "s", "t", "e", "d", " ", "t", "o", "d", "a", "y">>, found |-> Returns(None)],
     [text |-> Ago(5, <<"d", "a", "y", "s">>), found |-> Returns(None)],
     [text |-> Ago(20000, <<"d", "a", "y", "s">>), found |-> Returns(None)],
     [text |-> Ago(130000, <<"d", "a", "y", "s">>), found |-> Returns(None)],
     [text |-> Ago(738890, <<"d", "a", "y", "s">>), found |-> Returns(None)],
     [text |-> <<"U", "n", "k", "n", "o", "w", "n">>, found |-> Returns(None)],
     [text |-> <<"E", "m", "p", "l", "o", "y", "e", "r">>, found |-> Raises],
     [text |-> <<"J", "a", "n", " ", "4">>, found |-> Returns(Some(<<2024, 1, 4>>))]}

\* the cards of the result pages: the first title belongs to url a, the
\* second to url b, the third to either
RawCards ==
    {c \in [title : CardTitles, date : CardDates, url : {<<"a">>, <<"b">>}] :
        /\ c.title[1] = "S" => c.url = <<"a">>
        /\ c.title[1] = "W" => c.url = <<"b">>}

\* ", ".join(skills)
RECURSIVE join(_)
join(list) ==
    IF list = <<>> THEN <<>>
    ELSE IF Len(list) = 1 THEN Head(list)
    ELSE Head(list) \o <<",", " ">> \o join(Tail(list))

\* skills = extract_skills_from_text(description_to_parse), for each title
\* (the list is the same for every order of the set it is sorted from)
scraped_skills ==
    [title \in CardTitles |->
        CHOOSE l \in extract_skills_from_text(
                        Some(title \o <<" ", "C", "o", " ", "N", "Y">>)) : TRUE]

\* the dict appended to jobs_data
scraped_job(card, parsed_date) ==
    [title |-> Some(card.title),
     company |-> Some(<<"C", "o">>),
     location |-> Some(<<"N", "Y">>),
     skills |-> IF scraped_skills[card.title] # <<>>
                THEN Some(join(scraped_skills[card.title]))
                ELSE Some(<<"N", "/", "A">>),
     date_posted |-> Some(card.date.text),
     parsed_date |-> parsed_date,
     source |-> Some(<<"I", "n">>),
     search_keyword |-> Some(<<"a", "b">>),
     url |-> Some(card.url)]

\* pd.to_datetime(value, errors='coerce'): midnight of the date; a date
\* outside 1677-09-22..2262-04-11 does not fit datetime64[ns] and becomes
\* NaT, while a pandas with a coarser unit keeps it
to_datetime(value, nanoseconds) ==
    IF isna(value) THEN None
    ELSE IF /\ nanoseconds
            /\ \/ toordinal(Get(value)) < toordinal(<<1677, 9, 22>>)
               \/ toordinal(Get(value)) > toordinal(<<2262, 4, 11>>)
    THEN None
    ELSE Some(Get(value) \o <<0, 0, 0>>)

\* the loop of store_jobs over jobs_df when no statement fails: the table
\* of the transaction after the last row
RECURSIVE store_jobs(_, _, _)
store_jobs(jobs_df, table, time) ==
    IF jobs_df = <<>> THEN table
    ELSE IF MissingUrl(Head(jobs_df)) THEN store_jobs(Tail(jobs_df), table, time)
    ELSE store_jobs(Tail(jobs_df),
                    InsertInto(table, data_tuple(Head(jobs_df)), time).table,
                    time)

\* the button is pressed: scrape_indeed starts with an empty jobs_data
ScrapeBegin ==
    /\ app = "running"
    /\ pc[Main] = "idle"
    /\ Len(jobs) < MaxBatch
    /\ pc' = [pc EXCEPT ![Main] = "scraping"]
    /\ jobs_data' = <<>>
    /\ UNCHANGED <<app, selftest_failed, dbOpenable, init_last, tableExists,
                   jobs, now, lock, fetched, today, date_str, parsed,
                   text_blob, skills, skills_series, skill_counts>>
    /\ UNCHANGED storeVars

\* one card of a result page: a card whose job was scraped already is
\* passed over; when parse_relative_date raises, the handler of the page
\* logs it and no record is added for the card
ScrapeCard ==
    /\ pc[Main] = "scraping"
    /\ Len(jobs_data) < MaxBatch
    /\ \E card \in RawCards :
          LET out == parse_relative_date(Some(card.date.text), today,
                                         card.date.found)
          IN  jobs_data' =
                IF \/ out.raised
                   \/ \E i \in 1..Len(jobs_data) : jobs_data[i].url = Some(card.url)
                THEN jobs_data
                ELSE Append(jobs_data, scraped_job(card, out.value))
    /\ UNCHANGED <<app, selftest_failed, dbOpenable, init_last, tableExists,
                   jobs, now, lock, pc, fetched, today, date_str, parsed,
                   text_blob, skills, skills_series, skill_counts>>
    /\ UNCHANGED storeVars

\* "if all_processed_jobs_dfs:" the dates are converted and store_jobs is
\* called; a failed connect or a missing table stores nothing
ScrapeStore ==
    /\ pc[Main] = "scraping"
    /\ pc' = [pc EXCEPT ![Main] = "idle"]
    /\ \E nanoseconds \in BOOLEAN :
          LET final_df == [i \in 1..Len(jobs_data) |->
                              [jobs_data[i] EXCEPT !.parsed_date =
                                  to_datetime(@, nanoseconds)]]
          IN  jobs' = IF jobs_data = <<>> \/ ~dbOpenable \/ ~tableExists
                      THEN jobs
                      ELSE store_jobs(final_df, jobs, now)
    /\ jobs_before' = [jobs_before EXCEPT ![Main] = jobs]
    /\ UNCHANGED <<app, selftest_failed, dbOpenable, init_last, tableExists,
                   now, lock, fetched, today, date_str, parsed, text_blob,
                   skills, ingestVars, cur, txn, inserted_rows,
                   skipped_due_to_duplicate, error_rows, seen_urls,
                   call_fault, ret>>

\* skill_counts = analyze_skills(jobs_df_display['skills'])
ShowSkills ==
    /\ pc[Main] = "fetch_done"
    /\ Get(fetched[Main]).df # <<>>
    /\ LET column == [i \in 1..Len(Get(fetched[Main]).df) |->
                        Some(Get(fetched[Main]).df[i].skills)]
       IN  /\ skills_series' = Some(column)
           /\ skill_counts' = Some(analyze_skills(column))
    /\ UNCHANGED <<app, selftest_failed, dbOpenable, init_last, tableExists,
                   jobs, now, lock, pc, fetched, today, date_str, parsed,
                   text_blob, skills, jobs_data>>
    /\ UNCHANGED storeVars

NextIngest ==
    \/ ModuleLoad
    \/ Startup
    \/ ScrapeBegin
    \/ ScrapeCard
    \/ ScrapeStore
    \/ InitFetch
    \/ ShowSkills
    \/ FetchReturn

SpecIngest == Init /\ [][NextIngest]_vars

----------------------------------------------------------------------------
(* Properties of the Job Record Store                                      *)

UniqueUrls(table) ==
    \A i, j \in 1..Len(table) : table[i].url = table[j].url => i = j

RowsWithUrl(table, u) == {i \in 1..Len(table) : table[i].url = u}

\* the step of p handles one row of jobs_df
HandlesRow(p) ==
    /\ pc[p] = "store_loop"
    /\ pc'[p] = "store_loop"
    /\ Idx(p)' = Idx(p) + 1

\* C1: whatever store_jobs calls have run, with whatever overlapping batches,
\* no two rows of the jobs table (as committed, and as any open transaction
\* has it) have the same url.
C1_UrlUnique == UniqueUrls(jobs) /\ \A p \in Procs : UniqueUrls(View(p))

\* two calls have interleaved: the url that the call of p2 was skipped on
\* was not stored when that call began, and is stored now
C1_Witness ==
    /\ pc["p2"] = "store_done"
    /\ skipped_due_to_duplicate["p2"] = 1
    /\ Len(seen_urls["p2"]) = 1
    /\ ~HasUrl(jobs_before["p2"], seen_urls["p2"][1])
    /\ HasUrl(jobs, seen_urls["p2"][1])

\* C2: a row of jobs_df whose url is that of a stored row leaves the table as
\* it was, every stored row with all its fields and no row added, also when
\* its other fields differ from the stored ones.
C2_DuplicateRejected ==
    [][\A p \in Procs :
          (/\ HandlesRow(p)
           /\ ~isna(Get(cur'[p]).rec.url)
           /\ HasUrl(View(p), Get(Get(cur'[p]).rec.url)))
          => (View(p)' = View(p) /\ jobs' = jobs)]_vars

\* a row with a stored url, another date and another keyword was skipped
C2_Witness ==
    /\ pc[Main] = "store_loop"
    /\ Idx(Main) = 1
    /\ skipped_due_to_duplicate[Main] = 1
    /\ \E i \in 1..Len(View(Main)) :
          LET row == View(Main)[i]
              tuple == data_tuple(Get(cur[Main]).rec)
          IN  /\ Some(row.url) = Get(cur[Main]).rec.url
              /\ row.parsed_date # tuple.parsed_date
              /\ row.search_keyword # tuple.search_keyword
              /\ row.source # tuple.source

\* C3: the value store_jobs returns is the number of rows the call added to
\* the jobs table, whatever the inserts and the commit did.
C3_ReturnsRowsAdded ==
    \A p \in Procs :
        pc[p] = "store_done" => Get(ret[p]) = Len(jobs) - Len(jobs_before[p])

SeenUrls(p) == {seen_urls[p][i] : i \in 1..Len(seen_urls[p])}

NewUrls(p) == {u \in SeenUrls(p) : ~HasUrl(jobs_before[p], u)}

\* C4: a call that met no storage fault leaves exactly one row for every url
\* of its batch, however often the url occurs in it, and returns the number
\* of urls that were not stored before; a call whose urls were all stored
\* before returns 0 and leaves the table as it was.
C4_IdempotentOnUrl ==
    \A p \in Procs :
        pc[p] = "store_done" =>
            /\ ~call_fault[p] =>
                  /\ \A u \in SeenUrls(p) : Cardinality(RowsWithUrl(jobs, u)) = 1
                  /\ Get(ret[p]) = Cardinality(NewUrls(p))
            /\ NewUrls(p) = {} => (Get(ret[p]) = 0 /\ jobs = jobs_before[p])

\* a batch of two rows with one url, not stored before, has returned 1
C4_Witness ==
    /\ pc[Main] = "store_done"
    /\ Len(seen_urls[Main]) = 2
    /\ seen_urls[Main][1] = seen_urls[Main][2]
    /\ ~HasUrl(jobs_before[Main], seen_urls[Main][1])
    /\ Cardinality(RowsWithUrl(jobs, seen_urls[Main][1])) = 1
    /\ ret[Main] = Some(1)

\* the url is null or the empty string
NullOrEmpty(u) == isna(u) \/ Get(u) = <<>>

\* C5: in either db_manager module, a row of jobs_df whose url is null or
\* empty adds nothing to the table, is counted in error_rows and not in
\* inserted_rows, and the loop goes on; no stored row has an empty url, and
\* the call ends with a count.
C5_MissingUrlRejected ==
    [][\A p \in Procs :
          /\ (HandlesRow(p) /\ NullOrEmpty(Get(cur'[p]).rec.url))
              => /\ View(p)' = View(p)
                 /\ jobs' = jobs
                 /\ error_rows'[p] = error_rows[p] + 1
                 /\ inserted_rows'[p] = inserted_rows[p]
          /\ \A i \in 1..Len(View(p)') : View(p)'[i].url # <<>>
          /\ pc'[p] = "store_done" => ~isna(ret'[p])]_vars

\* C6: a row with a url (one that is not blank) that the table does not hold
\* yet is inserted unless its own insert meets a storage fault, whatever
\* happened to the rows before it in the batch.
C6_BatchContinues ==
    [][\A p \in Procs :
          (/\ HandlesRow(p)
           /\ ~MissingUrl(Get(cur'[p]).rec)
           /\ ~Get(cur'[p]).fault
           /\ tableExists
           /\ lock \in {"free", p}
           /\ ~HasUrl(View(p), data_tuple(Get(cur'[p]).rec).url))
          => /\ HasUrl(View(p)', data_tuple(Get(cur'[p]).rec).url)
             /\ inserted_rows'[p] = inserted_rows[p] + 1]_vars

\* the second row of a batch was inserted after the first one was rejected
\* or met a storage error
C6_Witness ==
    /\ pc[Main] = "store_loop"
    /\ Idx(Main) = 2
    /\ error_rows[Main] = 1
    /\ inserted_rows[Main] = 1
    /\ ~MissingUrl(Get(cur[Main]).rec)
    /\ ~Get(cur[Main]).fault
    /\ HasUrl(View(Main), data_tuple(Get(cur[Main]).rec).url)

\* a and b hold the same rows, each as often
SameRows(a, b) ==
    /\ Len(a) = Len(b)
    /\ \E f \in [1..Len(a) -> 1..Len(b)] :
          /\ \A i, j \in 1..Len(a) : i # j => f[i] # f[j]
          /\ \A i \in 1..Len(a) : a[i] = b[f[i]]

\* C7: while the store can be queried, fetch_jobs() without keyword and
\* source returns the rows of the jobs table, each once, and nothing else.
C7_FetchAll ==
    \A p \in Procs :
        (/\ pc[p] = "fetch_done"
         /\ isna(Get(fetched[p]).keyword)
         /\ isna(Get(fetched[p]).source)
         /\ ~Get(fetched[p]).failed)
        => SameRows(Get(fetched[p]).df, jobs)

\* fetch_jobs() has returned both rows of a table of two, one without a date
C7_Witness ==
    /\ pc[Main] = "fetch_done"
    /\ isna(Get(fetched[Main]).keyword)
    /\ isna(Get(fetched[Main]).source)
    /\ ~Get(fetched[Main]).failed
    /\ Len(Get(fetched[Main]).df) = 2
    /\ \E i \in 1..2 : isna(jobs[i].parsed_date)

\* kw occurs in text, letters compared without case
ContainsNoCase(text, kw) ==
    \E i \in 1..(Len(text) - Len(kw) + 1) :
        lower(SubSeq(text, i, i + Len(kw) - 1)) = lower(kw)

\* the filters a call supplies, as the specification words them
SatisfiesFilters(row, keyword, source) ==
    /\ (~isna(keyword) /\ Get(keyword) # <<>>)
        => ContainsNoCase(row.search_keyword, Get(keyword))
    /\ (~isna(source) /\ Get(source) # <<>>)
        => lower(row.source) = lower(Get(source))

\* C8: fetch_jobs(keyword, source) returns exactly the stored rows whose
\* search_keyword contains the keyword, without regard to case, and whose
\* source is the given one, without regard to case.
C8_FilterExact ==
    \A p \in Procs :
        (pc[p] = "fetch_done" /\ ~Get(fetched[p]).failed)
        => \A i \in 1..Len(jobs) :
              (\E k \in 1..Len(Get(fetched[p]).df) : Get(fetched[p]).df[k] = jobs[i])
              <=> SatisfiesFilters(jobs[i], Get(fetched[p]).keyword,
                                   Get(fetched[p]).source)

\* the date a stored text stands for
DateOf(text) == CHOOSE d \in Dates : StrDate(d) = text

\* date a is earlier than date b
Earlier(a, b) ==
    \/ a[1] < b[1]
    \/ a[1] = b[1] /\ a[2] < b[2]
    \/ a[1] = b[1] /\ a[2] = b[2] /\ a[3] < b[3]

\* C9: fetch_jobs returns the rows by parsed date, latest first, every row
\* without a parsed date after every row with one, and rows of one parsed
\* date by scraped_at, latest first.
C9_Ordering ==
    \A p \in Procs :
        (pc[p] = "fetch_done" /\ ~Get(fetched[p]).failed)
        => \A i, j \in 1..Len(Get(fetched[p]).df) :
              i < j =>
                 LET a == Get(fetched[p]).df[i]
                     b == Get(fetched[p]).df[j]
                 IN  /\ isna(a.parsed_date) => isna(b.parsed_date)
                     /\ (~isna(a.parsed_date) /\ ~isna(b.parsed_date))
                         => ~Earlier(DateOf(Get(a.parsed_date)),
                                     DateOf(Get(b.parsed_date)))
                     /\ a.parsed_date = b.parsed_date
                         => a.scraped_at >= b.scraped_at

----------------------------------------------------------------------------
(* Store-wide faults, init_db and the life of a stored row                 *)

\* sqlite3.connect failed in the call of p
ConnectFails(p) ==
    pc[p] = "idle" /\ pc'[p] = "store_done" /\ call_fault'[p]

\* conn.commit() failed in the call of p: the transaction held changes and
\* the file is as it was
CommitFails(p) ==
    pc[p] = "store_loop" /\ pc'[p] = "store_done" /\ View(p) # jobs /\ jobs' = jobs

\* C11: a call of store_jobs that could not open the database, or could not
\* commit its transaction, hands no inserted-row count to its caller.
C11_StoreWideFaultPropagates ==
    [][\A p \in Procs :
          (ConnectFails(p) \/ CommitFails(p)) => isna(ret'[p])]_vars

\* C12: every init_db call leaves the stored rows, committed or in an open
\* transaction, as they were, never removes the table, and leaves the table
\* present when it ends without an error.
C12_InitDbKeepsData ==
    [][init_last' # init_last
          => /\ jobs' = jobs
             /\ txn' = txn
             /\ tableExists => tableExists'
             /\ ~Get(init_last').error => tableExists']_vars

\* init_db has run without error on a table that held rows, and they are there
C12_Witness ==
    /\ ~isna(init_last)
    /\ ~Get(init_last).error
    /\ Get(init_last).rows >= 1
    /\ Len(jobs) = Get(init_last).rows
    /\ tableExists

\* C13: every step of init_db, store_jobs and fetch_jobs leaves every
\* committed row where it is, with all its fields, scraped_at included.
C13_RowsImmutable ==
    [][\A i \in 1..Len(jobs) : i <= Len(jobs') /\ jobs'[i] = jobs[i]]_vars

\* a row stored at time 0 is unchanged after init_db has run on two rows, a
\* later call has stored a second row and met the url of the first again
C13_Witness ==
    /\ Len(jobs) >= 2
    /\ jobs[1].scraped_at = 0
    /\ jobs[2].scraped_at = 1
    /\ ~isna(init_last)
    /\ Get(init_last).rows = 2
    /\ pc[Main] = "store_done"
    /\ skipped_due_to_duplicate[Main] >= 1
    /\ jobs[1].url \in SeenUrls(Main)

----------------------------------------------------------------------------
(* Properties of the Date Normalizer                                       *)

\* parse_relative_date has been called with the text s
ParsedText(s) == ~isna(parsed) /\ date_str = Some(s)

\* the call ended with the date n days before the day of the call
GaveDaysBack(n) ==
    /\ ~Get(parsed).out.raised
    /\ ~isna(Get(parsed).out.value)
    /\ toordinal(Get(Get(parsed).out.value)) = toordinal(Get(parsed).day) - n

\* the call ended with no date
GaveAbsent == ~Get(parsed).out.raised /\ isna(Get(parsed).out.value)

\* C14: for every N, parse_relative_date of "N day ago" and of "N days ago"
\* returns the date N days before the current date.
C14_DaysAgo ==
    \A n \in DateNs, unit \in {<<"d", "a", "y">>, <<"d", "a", "y", "s">>} :
        ParsedText(Ago(n, unit)) => GaveDaysBack(n)

\* the rule of the claim's list that a text falls under: the lowest-numbered
\* one it matches
RuleOf(s) ==
    IF isna(s) \/ Get(s) = <<>> THEN 1
    ELSE LET t == strip(lower(Get(s)))
         IN  IF \E term \in SameDayTerms : Contains(t, term) THEN 2
             ELSE IF AgoMatches(t, <<"d", "a", "y">>) # {} THEN 3
             ELSE IF \E term \in SubDayTerms : Contains(t, term) THEN 4
             ELSE IF AgoMatches(t, <<"w", "e", "e", "k">>) # {} THEN 5
             ELSE IF AgoMatches(t, <<"m", "o", "n", "t", "h">>) # {} THEN 6
             ELSE 7

\* the N of the rule in a text
NumberOf(s, unit) == AgoNumber(strip(lower(Get(s))), unit)

\* C15: the result of parse_relative_date is the one the first matching rule
\* of the list gives: absent (1), today (2), today minus N days (3), today
\* (4), today minus 7N days (5), today minus 30N days (6), and whatever the
\* general date parser finds, a date or nothing (7).
C15_FirstRuleWins ==
    ~isna(parsed) =>
        CASE RuleOf(date_str) = 1 -> GaveAbsent
          [] RuleOf(date_str) \in {2, 4} -> GaveDaysBack(0)
          [] RuleOf(date_str) = 3 -> GaveDaysBack(NumberOf(date_str, <<"d", "a", "y">>))
          [] RuleOf(date_str) = 5 -> GaveDaysBack(7 * NumberOf(date_str, <<"w", "e", "e", "k">>))
          [] RuleOf(date_str) = 6 -> GaveDaysBack(30 * NumberOf(date_str, <<"m", "o", "n", "t", "h">>))
          [] OTHER -> ~Get(parsed).out.raised

\* C16: for every N, "N week(s) ago" gives the date 7N days back and
\* "N month(s) ago" the date 30N days back, so that "1 week ago" gives what
\* "7 days ago" gives and "1 month ago" what "30 days ago" gives.
C16_WeeksAndMonths ==
    \A n \in DateNs :
        /\ \A unit \in {<<"w", "e", "e", "k">>, <<"w", "e", "e", "k", "s">>} :
              ParsedText(Ago(n, unit)) => GaveDaysBack(7 * n)
        /\ \A unit \in {<<"m", "o", "n", "t", "h">>, <<"m", "o", "n", "t", "h", "s">>} :
              ParsedText(Ago(n, unit)) => GaveDaysBack(30 * n)

\* C17: parse_relative_date ends with a date or with None, whatever its
\* input; no exception leaves it.
C17_NeverRaises == ~isna(parsed) => ~Get(parsed).out.raised

----------------------------------------------------------------------------
(* Properties of the Skill Extractor                                       *)

\* each element is below the next one: sorted, and nothing twice
StrictlySorted(l) == \A i \in 1..(Len(l) - 1) : StrLess(l[i], l[i + 1])

\* C18: the list extract_skills_from_text returns is sorted and holds no
\* token twice; a second call on the same text returns the same list; None,
\* the empty text and a text without a skill give the empty list.
C18_SortedSetDeterministic ==
    [][/\ ~isna(skills') =>
            /\ StrictlySorted(Get(skills'))
            /\ (isna(text_blob') \/ Get(text_blob') = <<>>
                    \/ text_blob' = Some(<<"W", "e", " ", "a", "r", "e", " ", "g", "o", "i", "n", "g", " ", "p", "l", "a", "c", "e", "s">>))
                 => Get(skills') = <<>>
       /\ (~isna(skills) /\ text_blob' = text_blob) => skills' = skills]_vars

\* a text that names two skills twice has given a list of two
C18_Witness ==
    /\ ~isna(skills)
    /\ Len(Get(skills)) = 2
    /\ \E w \in BlobWords : text_blob = Some(w \o <<" ">> \o w)

Tokens == IF isna(skills) THEN {} ELSE {Get(skills)[i] : i \in 1..Len(Get(skills))}

\* C19: every token extract_skills_from_text returns is lower-case and is
\* one of COMMON_SKILLS.
C19_FromVocabulary ==
    \A token \in Tokens : lower(token) = token /\ token \in COMMON_SKILLS

\* C19, amended: every token extract_skills_from_text returns is lower-case
\* and is one of COMMON_SKILLS, or one of them with ".js" written "js".
C19_FromVocabularyOrJs ==
    \A token \in Tokens :
        /\ lower(token) = token
        /\ \/ token \in COMMON_SKILLS
           \/ \E skill \in COMMON_SKILLS :
                 token = replace(skill, <<".", "j", "s">>, <<"j", "s">>)

\* a text with "Node.js" and "asp.net" has given nodejs and the two .net skills
C19_Witness ==
    /\ <<"n", "o", "d", "e", "j", "s">> \in Tokens
    /\ <<"a", "s", "p", ".", "n", "e", "t">> \in Tokens
    /\ <<".", "n", "e", "t">> \in Tokens

IsAlnum(token) ==
    \A i \in 1..Len(token) : IsWordChar(token[i]) /\ token[i] # "_"

\* token stands in text with no letter, digit or underscore next to it
WholeWord(token, text) ==
    \E i \in 1..(Len(text) - Len(token) + 1) :
        /\ SubSeq(text, i, i + Len(token) - 1) = token
        /\ i = 1 \/ ~IsWordChar(text[i - 1])
        /\ i + Len(token) > Len(text) \/ ~IsWordChar(text[i + Len(token)])

\* C20: an alphanumeric token of COMMON_SKILLS is among the tokens returned
\* only when it stands in the lower-cased text as a whole word; "go" is not
\* returned for "We are going places", nor "java" for "javascript".
C20_WholeWordsOnly ==
    /\ \A token \in Tokens :
          (IsAlnum(token) /\ token \in COMMON_SKILLS)
              => WholeWord(token, lower(Get(text_blob)))
    /\ text_blob = Some(<<"W", "e", " ", "a", "r", "e", " ", "g", "o", "i", "n", "g", " ", "p", "l", "a", "c", "e", "s">>) => <<"g", "o">> \notin Tokens
    /\ text_blob = Some(<<"j", "a", "v", "a", "s", "c", "r", "i", "p", "t">>) => <<"j", "a", "v", "a">> \notin Tokens

\* "going Go" has given go alone, "going" notwithstanding
C20_Witness ==
    /\ text_blob = Some(<<"g", "o", "i", "n", "g", " ", "G", "o">>)
    /\ skills = Some(<<<<"g", "o">>>>)

----------------------------------------------------------------------------
(* Properties of the matching policy and of the normalization              *)

\* the token holds a character that is no letter, digit, underscore or space
HasSpecial(token) ==
    \E i \in 1..Len(token) : ~IsWordChar(token[i]) /\ token[i] # " "

\* the token is among the returned ones, as it is or with ".js" written "js"
Reported(token) ==
    \/ token \in Tokens
    \/ replace(token, <<".", "j", "s">>, <<"j", "s">>) \in Tokens

\* C21: every token of COMMON_SKILLS that holds a special character is
\* reported whenever it occurs anywhere in the lower-cased text, whatever
\* stands next to it; "Senior C++ Engineer" gives "c++".
C21_SpecialBySubstring ==
    (~isna(skills) /\ ~isna(text_blob)) =>
        /\ \A token \in COMMON_SKILLS :
              (HasSpecial(token) /\ Contains(lower(Get(text_blob)), token))
                  => Reported(token)
        /\ text_blob = Some(<<"S", "e", "n", "i", "o", "r", " ", "C", "+", "+", " ", "E", "n", "g", "i", "n", "e", "e", "r">>)
              => <<"c", "+", "+">> \in Tokens

\* the canonical spelling of each token of COMMON_SKILLS
Canonical ==
    [token \in COMMON_SKILLS |->
        IF token = <<"n", "o", "d", "e", ".", "j", "s">>
            THEN <<"n", "o", "d", "e", "j", "s">>
        ELSE IF token = <<"e", "x", "p", "r", "e", "s", "s", ".", "j", "s">>
            THEN <<"e", "x", "p", "r", "e", "s", "s", "j", "s">>
        ELSE IF token = <<"n", "e", "x", "t", ".", "j", "s">>
            THEN <<"n", "e", "x", "t", "j", "s">>
        ELSE token]

\* C22: the tokens extract_skills_from_text returns are the images of the
\* matched raw tokens under one mapping defined on every token: "node.js"
\* gives "nodejs", the other ".js" tokens lose the dot as well, and every
\* other token is returned as it is.
C22_CanonicalMapping ==
    (~isna(skills) /\ ~isna(text_blob)) =>
        /\ Tokens = {Canonical[raw] : raw \in found_skills(lower(Get(text_blob)))}
        /\ \A raw \in found_skills(lower(Get(text_blob))) :
              ~Contains(raw, <<".", "j", "s">>) => raw \in Tokens

\* "Node.js Java" has given java unchanged and node.js as nodejs
C22_Witness ==
    /\ text_blob = Some(<<"N", "o", "d", "e", ".", "j", "s", " ", "J", "a", "v", "a">>)
    /\ skills = Some(<<<<"j", "a", "v", "a">>, <<"n", "o", "d", "e", "j", "s">>>>)

----------------------------------------------------------------------------
(* Properties of concurrent calls                                          *)

\* the call of p has ended and its count has not been taken yet
Stored(p) == pc[p] = "store_done" /\ Idx(p) >= 1

\* C24: when two store_jobs calls on one database have both ended, however
\* their rows interleaved, every url that either call submitted is in the
\* jobs table, in exactly one row. (Calls whose commit failed are left out:
\* the claim is about interleaving.)
C24_StoresSerialized ==
    (/\ tableExists
     /\ \A p \in Procs : Stored(p) /\ (call_fault[p] => error_rows[p] > 0))
    => \A p \in Procs : \A i \in 1..Len(seen_urls[p]) :
          Cardinality(RowsWithUrl(jobs, seen_urls[p][i])) = 1

\* the same for calls none of whose inserts found the database locked
C24_UnlessLocked ==
    (/\ tableExists
     /\ \A p \in Procs : Stored(p) /\ ~call_fault[p])
    => \A p \in Procs : \A i \in 1..Len(seen_urls[p]) :
          Cardinality(RowsWithUrl(jobs, seen_urls[p][i])) = 1

\* the urls of the rows that the open transaction of p has inserted
Uncommitted(p) ==
    {View(p)[i].url : i \in 1..Len(View(p))} \ {jobs[i].url : i \in 1..Len(jobs)}

\* q makes a fetch_jobs() call that does not fail
Fetches(q) ==
    /\ pc[q] = "idle"
    /\ pc'[q] = "fetch_done"
    /\ ~Get(fetched'[q]).failed

\* C30: a fetch_jobs call made while a store_jobs call of another process is
\* under way returns none of the rows that call has inserted so far, and the
\* committed table changes only when a call commits, by all the rows of
\* that call at once: a fetch sees none or all of them.
C30_BatchAtomic ==
    [][/\ \A q \in Procs : Fetches(q) =>
             \A p \in Procs \ {q} : \A i \in 1..Len(Get(fetched'[q]).df) :
                 Get(fetched'[q]).df[i].url \notin Uncommitted(p)
       /\ jobs' # jobs =>
             \E p \in Procs :
                 /\ pc[p] = "store_loop"
                 /\ pc'[p] = "store_done"
                 /\ jobs' = View(p)
                 /\ Len(jobs') = Len(jobs) + inserted_rows[p]]_vars

\* p2 has fetched the committed table while the call of p1 has two rows
\* inserted and not committed
C30_Witness ==
    /\ pc["p1"] = "store_loop"
    /\ inserted_rows["p1"] = 2
    /\ Cardinality(Uncommitted("p1")) = 2
    /\ pc["p2"] = "fetch_done"
    /\ ~Get(fetched["p2"]).failed
    /\ SameRows(Get(fetched["p2"]).df, jobs)

----------------------------------------------------------------------------
(* Properties of the stored url                                            *)

\* no row has an empty url or one with a blank at either end, and no two
\* rows have urls that are equal once the blanks around them are dropped
UrlsNormalized(table) ==
    /\ \A i \in 1..Len(table) :
          table[i].url # <<>> /\ strip(table[i].url) = table[i].url
    /\ \A i, j \in 1..Len(table) :
          strip(table[i].url) = strip(table[j].url) => i = j

\* C29: after any store_jobs calls every row of the jobs table has a url
\* that is not empty and has no blank at either end, and of two submitted
\* urls that differ only in the blanks around them at most one is stored.
C29_UrlNormalized ==
    UrlsNormalized(jobs) /\ \A p \in Procs : UrlsNormalized(View(p))

\* the url " a" was submitted after "a" had been committed, and was skipped
C29_Witness ==
    /\ pc[Main] = "store_loop"
    /\ ~isna(cur[Main])
    /\ Get(cur[Main]).rec.url = Some(<<" ", "a">>)
    /\ skipped_due_to_duplicate[Main] = 1
    /\ Idx(Main) = 1
    /\ HasUrl(jobs, <<"a">>)

----------------------------------------------------------------------------
(* Properties of the stored defaults                                       *)

OptionalFields ==
    {"title", "company", "location", "date_posted", "source", "search_keyword"}

\* "N/A", "Unknown" and the empty text
DocumentedDefaults ==
    {<<"N", "/", "A">>, <<"U", "n", "k", "n", "o", "w", "n">>, <<>>}

\* the step of p inserts the row it handles
InsertsRow(p) == HandlesRow(p) /\ inserted_rows'[p] = inserted_rows[p] + 1

\* C27: when store_jobs stores a record in which an optional field (title,
\* company, location, date_posted, source, search_keyword) is missing or
\* null, the stored value of that field is "N/A", "Unknown" or empty.
C27_DocumentedDefaults ==
    [][\A p \in Procs : InsertsRow(p) =>
          LET rec == Get(cur'[p]).rec
              row == View(p)'[Len(View(p)')]
          IN  \A field \in OptionalFields :
                 isna(rec[field]) => row[field] \in DocumentedDefaults]_vars

----------------------------------------------------------------------------
(* Properties of the Skill Aggregator                                      *)

\* the entry without the blanks around it and without one pair of brackets
\* around that
Unbracketed(entry) ==
    LET e == strip(entry)
    IN  IF Len(e) >= 2 /\ e[1] = "[" /\ e[Len(e)] = "]"
        THEN [i \in 1..(Len(e) - 2) |-> e[i + 1]]
        ELSE e

\* places i..j of text hold one fragment: a longest run without a comma
IsFragment(text, i, j) ==
    /\ i = 1 \/ text[i - 1] = ","
    /\ j = Len(text) \/ text[j + 1] = ","
    /\ \A k \in i..j : text[k] # ","

\* the fragments of the series that are equal to token once trimmed and
\* lower-cased: entry, first place, last place
FragmentsEqual(series, token) ==
    {<<n, i, j>> \in (1..Len(series)) \X (1..12) \X (0..12) :
        /\ ~isna(series[n])
        /\ i <= j + 1
        /\ j <= Len(Unbracketed(Get(series[n])))
        /\ IsFragment(Unbracketed(Get(series[n])), i, j)
        /\ lower(strip(SubSeq(Unbracketed(Get(series[n])), i, j))) = token}

\* the trimmed, lower-cased, non-empty fragments of the series
FragmentTokens(series) ==
    {lower(strip(SubSeq(Unbracketed(Get(series[n])), i, j))) :
        <<n, i, j>> \in {t \in (1..Len(series)) \X (1..12) \X (0..12) :
            /\ ~isna(series[t[1]])
            /\ t[2] <= t[3] + 1
            /\ t[3] <= Len(Unbracketed(Get(series[t[1]])))
            /\ IsFragment(Unbracketed(Get(series[t[1]])), t[2], t[3])}}
    \ {<<>>}

\* C23: analyze_skills counts, for each token, the fragments equal to it
\* that the non-null entries give once one pair of surrounding brackets is
\* dropped and the rest is split on commas, trimmed and lower-cased; nulls
\* and empty fragments count for nothing; "python, sql" and "python, go"
\* give python 2, sql 1, go 1.
C23_CountsFragments ==
    ~isna(skill_counts) =>
        LET series == Get(skills_series)
            counts == Get(skill_counts)
        IN  /\ DOMAIN counts = FragmentTokens(series)
            /\ \A token \in DOMAIN counts :
                  counts[token] = Cardinality(FragmentsEqual(series, token))
            /\ series = <<Some(<<"p", "y", "t", "h", "o", "n", ",", " ", "s", "q", "l">>),
                          Some(<<"p", "y", "t", "h", "o", "n", ",", " ", "g", "o">>)>>
                  => /\ Cardinality(DOMAIN counts) = 3
                     /\ counts[<<"p", "y", "t", "h", "o", "n">>] = 2
                     /\ counts[<<"s", "q", "l">>] = 1
                     /\ counts[<<"g", "o">>] = 1

\* a bracketed entry and one with empty fragments have given go 2, sql 2
C23_Witness ==
    /\ skills_series = Some(<<Some(<<"[", "G", "o", ",", " ", "S", "Q", "L", " ", "]">>),
                              Some(<<"g", "o", ",", ",", "s", "q", "l", " ", ",">>)>>)
    /\ ~isna(skill_counts)
    /\ Get(skill_counts)[<<"g", "o">>] = 2
    /\ Get(skill_counts)[<<"s", "q", "l">>] = 2

----------------------------------------------------------------------------
(* Properties of the ingestion pipeline                                    *)

\* the last scrape has been stored into an empty table and fetch_jobs()
\* has returned
FetchedAfterIngest ==
    /\ pc[Main] = "fetch_done"
    /\ ~Get(fetched[Main]).failed
    /\ jobs_before[Main] = <<>>
    /\ jobs_data # <<>>

\* the scraped record with the url of a fetched row
ScrapedAs(row) ==
    CHOOSE rec \in {jobs_data[i] : i \in 1..Len(jobs_data)} :
        rec.url = Some(row.url)

\* the fetched rows are the scraped records, each once
ReturnsScraped ==
    LET df == Get(fetched[Main]).df
    IN  /\ Len(df) = Len(jobs_data)
        /\ \A i \in 1..Len(jobs_data) :
              Cardinality({k \in 1..Len(df) :
                              Some(df[k].url) = jobs_data[i].url}) = 1

\* no fetched row stands before one whose date text gave a later date
LaterFirst ==
    LET df == Get(fetched[Main]).df
    IN  \A i, j \in 1..Len(df) :
            (/\ i < j
             /\ ~isna(ScrapedAs(df[i]).parsed_date)
             /\ ~isna(ScrapedAs(df[j]).parsed_date))
            => ~Earlier(Get(ScrapedAs(df[i]).parsed_date),
                        Get(ScrapedAs(df[j]).parsed_date))

\* C25: records with distinct urls, their date texts normalized by
\* parse_relative_date and stored into an empty table, are what
\* fetch_jobs() returns, a record with a later date before one with an
\* earlier date.
C25_EndToEnd == FetchedAfterIngest => (ReturnsScraped /\ LaterFirst)

\* the same for scrapes every date of which was stored
C25_UnlessCoerced ==
    (/\ FetchedAfterIngest
     /\ \A i \in 1..Len(jobs) :
           isna(jobs[i].parsed_date) => isna(ScrapedAs(jobs[i]).parsed_date))
    => (ReturnsScraped /\ LaterFirst)

\* the number written at places i..j of text, -1 when they are not digits
NumberAt(text, i, j) ==
    IF \A k \in i..j : IsDigit(text[k])
    THEN int(SubSeq(text, i, j))
    ELSE -1

\* text is YYYY-MM-DD for a day of the calendar, alone or followed by a
\* time of day
ValidDateText(text) ==
    /\ Len(text) \in {10, 19}
    /\ text[5] = "-" /\ text[8] = "-"
    /\ NumberAt(text, 1, 4) >= 1
    /\ NumberAt(text, 6, 7) \in 1..12
    /\ NumberAt(text, 9, 10) \in
            1..DaysInMonth(NumberAt(text, 1, 4), NumberAt(text, 6, 7))
    /\ Len(text) = 19 =>
            /\ text[11] = " " /\ text[14] = ":" /\ text[17] = ":"
            /\ NumberAt(text, 12, 13) \in 0..23
            /\ NumberAt(text, 15, 16) \in 0..59
            /\ NumberAt(text, 18, 19) \in 0..59

\* the row was inserted by the last scrape
InsertedLast(row) ==
    /\ pc[Main] # "scraping"
    /\ ~HasUrl(jobs_before[Main], row.url)
    /\ \E i \in 1..Len(jobs_data) : jobs_data[i].url = Some(row.url)

\* C26: every row stored by the pipeline has a parsed_date that is null or
\* the text of a day of the calendar; a record for which
\* parse_relative_date gave None is stored with a null parsed_date, never
\* with a text such as "None", "NaT" or "Unknown".
C26_DateOrNull ==
    \A i \in 1..Len(jobs) :
        /\ isna(jobs[i].parsed_date) \/ ValidDateText(Get(jobs[i].parsed_date))
        /\ (InsertedLast(jobs[i]) /\ isna(ScrapedAs(jobs[i]).parsed_date))
              => isna(jobs[i].parsed_date)

\* a record without a date and one of today have been stored by one scrape
C26_Witness ==
    /\ Len(jobs) = 2
    /\ jobs_before[Main] = <<>>
    /\ pc[Main] = "idle"
    /\ isna(jobs[1].parsed_date)
    /\ jobs[1].date_posted = <<"U", "n", "k", "n", "o", "w", "n">>
    /\ isna(ScrapedAs(jobs[1]).parsed_date)
    /\ jobs[2].parsed_date = Some(<<"2", "0", "2", "4", "-", "0", "1", "-", "0", "5", " ", "0", "0", ":", "0", "0", ":", "0", "0">>)

\* the canonical spellings
CanonicalTokens == {Canonical[token] : token \in COMMON_SKILLS}

\* the parts of a stored skills value between the delimiters
StoredTokens(text) ==
    LET parts == split(text, ",")
    IN  [k \in 1..Len(parts) |-> strip(parts[k])]

\* C28: the skills value of every row stored by the pipeline is a joined
\* list of canonical skill tokens, none twice, also when no skill was
\* found in the text; so every key analyze_skills counts over the stored
\* column is a canonical skill token.
C28_SkillsCanonical ==
    /\ \A i \in 1..Len(jobs) :
          \/ jobs[i].skills = <<>>
          \/ LET tokens == StoredTokens(jobs[i].skills)
             IN  /\ \A k \in 1..Len(tokens) : tokens[k] \in CanonicalTokens
                 /\ \A k, l \in 1..Len(tokens) : tokens[k] = tokens[l] => k = l
    /\ (~isna(skill_counts) /\ pc[Main] = "fetch_done")
          => DOMAIN Get(skill_counts) \subseteq CanonicalTokens

====
